---- MODULE Spec2Model ----
(***************************************************************************)
(* Broker connectivity and real-time market data layer of forex-trade.     *)
(*                                                                         *)
(* Two module-level singletons are modelled, each from its class:          *)
(*   BrokerIntegration  (src/unnamed/part_000 lines 4-261)                 *)
(*   MarketDataService  (src/unnamed/part_000 lines 265-437)               *)
(* They share no state, so a behaviour exercises one of them; `service`    *)
(* records which.  Stream sockets are socket.io-client sockets created by  *)
(* io(url, {auth}) with the library's default options: an attempt that     *)
(* fails is retried by the library on the same socket, a connection lost   *)
(* to the network raises 'disconnect' and is re-attempted by the library   *)
(* on the same socket, and socket.disconnect() raises 'disconnect' when    *)
(* the socket was connected and stops the library's attempts.              *)
(***************************************************************************)
EXTENDS Integers, Sequences, FiniteSets, TLC

VARIABLES
    service,        \* which singleton this behaviour exercises
    sessions,       \* BrokerIntegration: every connection object built by connectToBroker
    pc,             \* BrokerIntegration: position of each connectToBroker call
    connections,    \* BrokerIntegration.connections : brokerId -> session
    mdConnections,  \* MarketDataService.connections : symbol -> socket, in insertion order
    timers,         \* MarketDataService: pending setTimeout callbacks, oldest first
    sockets,        \* the socket.io sockets created by io(...), by identity
    ledger,         \* the connection object handed to the ledger handlers
    calc,           \* a call of calculateUnrealizedPnL: its arguments and result
    users,          \* auth routes: the rows of the users table
    posts,          \* auth routes: the POST requests received and where each stands
    calls,          \* order gateway: the calls made on a session and how each ended
    requests,       \* order gateway: the REST requests sent to the venue
    order,          \* placeOandaOrder: the order parameters and the payload built
    cache,          \* MarketDataService.cache : key -> {data, timestamp}
    now,            \* Date.now(), in ms
    fetches,        \* the upstream candle requests of getHistoricalData
    got,            \* what the last read of the cache or of the history returned
    tick,           \* a call of processRealTimeData: its argument and result
    delivered,      \* the ticks handed to the subscriber callback that it accepted
    last            \* the operation that ran last and how it ended for its caller

vars == <<service, sessions, pc, connections, mdConnections, timers, sockets,
          ledger, calc, users, posts, calls, requests, order, cache, now,
          fetches, got, tick,
          delivered, last>>

brokerVars == <<sessions, pc, connections>>
mdVars == <<mdConnections, timers>>
authVars == <<users, posts>>
ledgerVars == <<ledger, calc>>
gatewayVars == <<calls, requests, order>>
feedVars == <<cache, now, fetches, got, tick, delivered>>

\* the order gateway and the snapshot cache, which the connection registries
\* and the ledger handlers never touch
otherVars == <<gatewayVars, feedVars>>

----------------------------------------------------------------------------
(* Bounds *)

MaxSessions == 2
MaxAttempts == 2
MaxSockets == 2

----------------------------------------------------------------------------
(* Small helpers for JS objects and Maps *)

\* Object.assign(target, source): every own field of source overwrites target's.
Merge(target, source) ==
    [k \in (DOMAIN target) \cup (DOMAIN source) |->
        IF k \in DOMAIN source THEN source[k] ELSE target[k]]

\* Map.set(key, value)
MapSet(m, k, v) == [x \in (DOMAIN m) \cup {k} |-> IF x = k THEN v ELSE m[x]]

\* Map.delete(key)
MapDelete(m, k) == [x \in (DOMAIN m) \ {k} |-> m[x]]

EmptyMap == [x \in {} |-> 0]

NoEvent == [op |-> "init", key |-> "", ok |-> TRUE]

\* the ledger and calculator variables while another part is exercised
NoLedger == [positions |-> EmptyMap, orders |-> EmptyMap]
NoCalc == [position |-> [side |-> "BUY", units |-> 0, averagePrice |-> 0],
           currentPrice |-> 0, result |-> 0, done |-> FALSE]

\* no order has been built or sent
NoOrder == [params |-> [side |-> "BUY", units |-> 0], payload |-> [units |-> 0], done |-> FALSE]

\* the users table is empty and no request has been received
AuthIdle ==
    /\ users = {}
    /\ posts = <<>>

GatewayIdle ==
    /\ calls = <<>>
    /\ requests = <<>>
    /\ order = NoOrder

\* nothing has been read, nothing has been processed
NoRead == [key |-> <<>>, hit |-> FALSE, data |-> <<>>]
NoTick == [data |-> [bid |-> 0, ask |-> 0], result |-> [spread |-> 0], done |-> FALSE]

\* the cache after construction, the clock at its origin
FeedIdle ==
    /\ cache = EmptyMap
    /\ now = 0
    /\ fetches = <<>>
    /\ got = NoRead
    /\ tick = NoTick
    /\ delivered = <<>>

\* `last` after a step that is no call of a caller: a response, a stream
\* event, the clock
Event == [op |-> "event", key |-> "", ok |-> TRUE]

----------------------------------------------------------------------------
(* BrokerIntegration: construction and endpoint table *)

BrokerIds == {"oanda", "fxcm"}

\* this.brokers; liveUrl / liveStreamUrl are not configured ("" is undefined)
brokers ==
    [oanda |-> [baseUrl       |-> "https://api-fxtrade.oanda.com",
                streamUrl     |-> "https://stream-fxtrade.oanda.com",
                demoUrl       |-> "https://api-fxpractice.oanda.com",
                demoStreamUrl |-> "https://stream-fxpractice.oanda.com",
                liveUrl       |-> "",
                liveStreamUrl |-> ""]]

\* a || b on strings
OrElse(a, b) == IF a # "" THEN a ELSE b

Instruments == <<"EUR_USD", "GBP_USD", "USD_JPY">>

----------------------------------------------------------------------------
(* Position/order ledger of one connection object *)

\* calculateUnrealizedPnL without its branch for the short side
calculateUnrealizedPnLLongOnly(position, currentPrice) ==
    (currentPrice - position.averagePrice) * position.units

\* calculateUnrealizedPnL(position, currentPrice)
calculateUnrealizedPnL(position, currentPrice) ==
    IF position.side = "BUY"
    THEN (currentPrice - position.averagePrice) * position.units
    ELSE (position.averagePrice - currentPrice) * position.units

\* a handlePriceUpdate that reprices every position, whatever its symbol
handlePriceUpdateAnySymbol(connection, data) ==
    LET touch(position) ==
            Merge(position,
                  [currentPrice  |-> data.price,
                   unrealizedPnL |-> calculateUnrealizedPnL(position, data.price)])
    IN  [connection EXCEPT
            !.positions = [id \in DOMAIN connection.positions |->
                              touch(connection.positions[id])]]

\* handlePriceUpdate(connection, data): returns the connection after the call
handlePriceUpdate(connection, data) ==
    LET symbol == OrElse(data.instrument, data.symbol)
        touch(position) ==
            IF position.symbol = symbol
            THEN Merge(position,
                       [currentPrice  |-> data.price,
                        unrealizedPnL |-> calculateUnrealizedPnL(position, data.price)])
            ELSE position
    IN  [connection EXCEPT
            !.positions = [id \in DOMAIN connection.positions |->
                              touch(connection.positions[id])]]

\* updatePosition(connection, transactionData)
updatePosition(connection, transactionData) ==
    LET positionId == transactionData.positionId
    IN  IF positionId \in DOMAIN connection.positions
        THEN [connection EXCEPT
                 !.positions = MapSet(connection.positions, positionId,
                                      Merge(connection.positions[positionId],
                                            transactionData))]
        ELSE connection

\* a cancelOrder that empties the working set
cancelOrderClearsAll(connection, transactionData) ==
    [connection EXCEPT !.orders = EmptyMap]

\* cancelOrder(connection, transactionData)
cancelOrder(connection, transactionData) ==
    [connection EXCEPT !.orders = MapDelete(connection.orders, transactionData.orderId)]

\* handleTransactionUpdate(connection, data)
handleTransactionUpdate(connection, data) ==
    IF data.type = "ORDER_FILL" THEN updatePosition(connection, data)
    ELSE IF data.type = "ORDER_CANCEL" THEN cancelOrder(connection, data)
    ELSE connection

----------------------------------------------------------------------------
(* socket.io sockets *)

\* io(url, {auth}): a socket whose first connection attempt is under way
\* attempts counts the attempts of the current (re)connection, the one under
\* way included; subs holds the subscribe requests emitted on the current
\* connection
NewSocket(owner, symbol) ==
    [owner |-> owner, symbol |-> symbol, state |-> "connecting",
     attempts |-> 1, subs |-> <<>>]

\* the identity of the next socket
FreshId(socks) ==
    CHOOSE i \in 1..(Cardinality(DOMAIN socks) + 1) :
        /\ i \notin DOMAIN socks
        /\ \A j \in 1..(i - 1) : j \in DOMAIN socks

\* socket.disconnect(): closes the socket; the library raises 'disconnect'
\* only when the socket was connected
CloseSocket(socks, k) == [socks EXCEPT ![k].state = "closed", ![k].subs = <<>>]

RaisesDisconnect(socks, k) == socks[k].state = "connected"

----------------------------------------------------------------------------
(* BrokerIntegration.connectToBroker and its three awaited steps *)

\* a connection literal that takes the venue's base pair whatever the mode
NewConnectionIgnoresMode(brokerId, isDemo) ==
    [brokerId    |-> brokerId,
     isDemo      |-> isDemo,
     baseUrl     |-> brokers[brokerId].baseUrl,
     streamUrl   |-> brokers[brokerId].streamUrl,
     connected   |-> FALSE,
     account     |-> "",
     accountInfo |-> FALSE,
     stream      |-> 0,
     positions   |-> [x \in {} |-> 0],
     orders      |-> [x \in {} |-> 0]]

\* the connection object literal of connectToBroker
NewConnection(brokerId, isDemo) ==
    LET broker == brokers[brokerId]
    IN  [brokerId    |-> brokerId,
         isDemo      |-> isDemo,
         baseUrl     |-> IF isDemo THEN OrElse(broker.demoUrl, broker.baseUrl)
                                   ELSE OrElse(broker.liveUrl, broker.baseUrl),
         streamUrl   |-> IF isDemo THEN OrElse(broker.demoStreamUrl, broker.streamUrl)
                                   ELSE OrElse(broker.liveStreamUrl, broker.streamUrl),
         connected   |-> FALSE,
         account     |-> "",
         accountInfo |-> FALSE,
         stream      |-> 0,
         positions   |-> EmptyMap,
         orders      |-> EmptyMap]

\* a connectToBroker without its guard and with a table that answers for
\* every id: a session is built and the discovery request sent for any id
ConnectToBrokerUnguarded(brokerId, isDemo) ==
    /\ service = "broker"
    /\ Len(sessions) < MaxSessions
    /\ sessions' = Append(sessions, [NewConnection("oanda", isDemo) EXCEPT
                                        !.brokerId = brokerId])
    /\ pc' = Append(pc, "auth")
    /\ last' = [op |-> "connectToBroker", key |-> brokerId, ok |-> TRUE]
    /\ UNCHANGED <<service, authVars, otherVars, connections, mdVars, ledgerVars, sockets>>

\* the call itself: the guard, the connection object, and the discovery
\* request of authenticateOanda, which is sent before the first await
ConnectToBroker(brokerId, isDemo) ==
    /\ service = "broker"
    /\ IF brokerId # "oanda"
       THEN /\ last' = [op |-> "connectToBroker", key |-> brokerId, ok |-> FALSE]
            /\ UNCHANGED <<sessions, pc, connections, mdVars, ledgerVars, sockets>>
       ELSE /\ Len(sessions) < MaxSessions
            /\ sessions' = Append(sessions, NewConnection(brokerId, isDemo))
            /\ pc' = Append(pc, "auth")
            /\ last' = [op |-> "connectToBroker", key |-> brokerId, ok |-> TRUE]
            /\ UNCHANGED <<connections, mdVars, ledgerVars, sockets>>
    /\ UNCHANGED <<service, authVars, otherVars>>

ConnectFailed(s) == [op |-> "connectRejected", key |-> sessions[s].brokerId, ok |-> FALSE]

\* an authenticate / getAccountInfo pair that goes on when the venue lists
\* no account
AuthResponseAcceptsEmpty(s, resp) ==
    /\ service = "broker"
    /\ s \in 1..Len(sessions)
    /\ pc[s] = "auth"
    /\ IF resp \in {"ok", "empty"}
       THEN /\ sessions' = [sessions EXCEPT
                               ![s].account = IF resp = "ok" THEN "acct-1" ELSE "",
                               ![s].connected = TRUE]
            /\ pc' = [pc EXCEPT ![s] = "acct"]
            /\ last' = [op |-> "event", key |-> "", ok |-> TRUE]
       ELSE /\ pc' = [pc EXCEPT ![s] = "failed"]
            /\ last' = [op |-> "connectRejected", key |-> sessions[s].brokerId, ok |-> FALSE]
            /\ UNCHANGED sessions
    /\ UNCHANGED <<service, authVars, otherVars, connections, mdVars, ledgerVars, sockets>>

\* authenticateOanda after its await: resp is the venue's answer
\*   "ok"    status 200 with an account
\*   "empty" status 200 with no account: accounts[0] is undefined, and
\*           getOandaAccountInfo then fails reading account.id
\*   "fail"  any other status, a network error or the 10 s timeout
AuthResponse(s, resp) ==
    /\ service = "broker"
    /\ s \in 1..Len(sessions)
    /\ pc[s] = "auth"
    /\ CASE resp = "ok" ->
              /\ sessions' = [sessions EXCEPT ![s].account = "acct-1",
                                              ![s].connected = TRUE]
              /\ pc' = [pc EXCEPT ![s] = "acct"]
              /\ last' = Event
         [] resp = "empty" ->
              /\ sessions' = [sessions EXCEPT ![s].connected = TRUE]
              /\ pc' = [pc EXCEPT ![s] = "failed"]
              /\ last' = ConnectFailed(s)
         [] OTHER ->
              /\ pc' = [pc EXCEPT ![s] = "failed"]
              /\ last' = ConnectFailed(s)
              /\ UNCHANGED sessions
    /\ UNCHANGED <<service, authVars, otherVars, connections, mdVars, ledgerVars, sockets>>

\* the 'connect' handler of connectOandaStream
SubscribePayload(connection) ==
    [accountID |-> connection.account, instruments |-> Instruments]

\* connectToBroker with connections.set moved before connectToStream: the
\* session is registered although opening the stream then fails
AccountResponseRegistersFirst(s, ok, ioOk) ==
    /\ service = "broker"
    /\ s \in 1..Len(sessions)
    /\ pc[s] = "acct"
    /\ IF ~ok
       THEN /\ pc' = [pc EXCEPT ![s] = "failed"]
            /\ last' = [op |-> "connectRejected", key |-> sessions[s].brokerId, ok |-> FALSE]
            /\ UNCHANGED <<sessions, connections, sockets>>
       ELSE /\ connections' = MapSet(connections, sessions[s].brokerId, s)
            /\ IF ioOk
               THEN /\ sockets' = MapSet(sockets, FreshId(sockets), NewSocket(s, ""))
                    /\ sessions' = [sessions EXCEPT ![s].accountInfo = TRUE,
                                                    ![s].stream = FreshId(sockets)]
                    /\ pc' = [pc EXCEPT ![s] = "done"]
                    /\ last' = [op |-> "connectResolved", key |-> sessions[s].brokerId,
                                ok |-> TRUE]
               ELSE /\ sessions' = [sessions EXCEPT ![s].accountInfo = TRUE]
                    /\ pc' = [pc EXCEPT ![s] = "failed"]
                    /\ last' = [op |-> "connectRejected", key |-> sessions[s].brokerId,
                                ok |-> FALSE]
                    /\ UNCHANGED sockets
    /\ UNCHANGED <<service, authVars, otherVars, mdVars, ledgerVars>>

\* getOandaAccountInfo after its await, then connectOandaStream and
\* connections.set, which run without a further wait
AccountResponse(s, ok, ioOk) ==
    /\ service = "broker"
    /\ s \in 1..Len(sessions)
    /\ pc[s] = "acct"
    /\ IF ~ok
       THEN /\ pc' = [pc EXCEPT ![s] = "failed"]
            /\ last' = ConnectFailed(s)
            /\ UNCHANGED <<sessions, connections, mdVars, ledgerVars, sockets>>
       ELSE IF ~ioOk
       THEN /\ sessions' = [sessions EXCEPT ![s].accountInfo = TRUE]
            /\ pc' = [pc EXCEPT ![s] = "failed"]
            /\ last' = ConnectFailed(s)
            /\ UNCHANGED <<connections, mdVars, ledgerVars, sockets>>
       ELSE /\ sockets' = MapSet(sockets, FreshId(sockets),
                                 NewSocket(s, ""))
            /\ sessions' = [sessions EXCEPT ![s].accountInfo = TRUE,
                                            ![s].stream = FreshId(sockets)]
            /\ connections' = MapSet(connections, sessions[s].brokerId, s)
            /\ pc' = [pc EXCEPT ![s] = "done"]
            /\ UNCHANGED <<mdVars, ledgerVars>>
            /\ last' = [op |-> "connectResolved", key |-> sessions[s].brokerId, ok |-> TRUE]
    /\ UNCHANGED <<service, authVars, otherVars>>

----------------------------------------------------------------------------
(* The stream of a broker session: the handlers connectOandaStream registers *)

BrokerSocket(k) ==
    /\ service = "broker"
    /\ k \in DOMAIN sockets

\* a stream whose subscribe request is not emitted from the 'connect' handler
StreamConnectNoSubscribe(k) ==
    /\ service = "broker"
    /\ k \in DOMAIN sockets
    /\ sockets[k].state = "connecting"
    /\ sockets' = [sockets EXCEPT ![k].state = "connected"]
    /\ last' = [op |-> "event", key |-> "", ok |-> TRUE]
    /\ UNCHANGED <<service, authVars, otherVars, sessions, pc, connections, mdVars, ledgerVars>>

\* socket.on('connect'): the subscribe request is emitted on every connect
StreamConnect(k) ==
    /\ BrokerSocket(k)
    /\ sockets[k].state = "connecting"
    /\ sockets' = [sockets EXCEPT
                      ![k].state = "connected",
                      ![k].subs = Append(@, SubscribePayload(sessions[sockets[k].owner]))]
    /\ last' = Event
    /\ UNCHANGED <<service, authVars, otherVars, sessions, pc, connections, mdVars, ledgerVars>>

\* a failed attempt raises 'connect_error', which has no handler; the
\* library starts the next attempt on the same socket
StreamConnectError(k) ==
    /\ BrokerSocket(k)
    /\ sockets[k].state = "connecting"
    /\ sockets[k].attempts < MaxAttempts
    /\ sockets' = [sockets EXCEPT ![k].attempts = @ + 1]
    /\ last' = Event
    /\ UNCHANGED <<service, authVars, otherVars, sessions, pc, connections, mdVars, ledgerVars>>

\* the network drops the stream: 'disconnect' has no handler here; the
\* library starts to reconnect the same socket
StreamDrop(k) ==
    /\ BrokerSocket(k)
    /\ sockets[k].state = "connected"
    /\ sockets' = [sockets EXCEPT ![k].state = "connecting",
                                  ![k].attempts = 1,
                                  ![k].subs = <<>>]
    /\ last' = [op |-> "streamDrop", key |-> sessions[sockets[k].owner].brokerId, ok |-> TRUE]
    /\ UNCHANGED <<service, authVars, otherVars, sessions, pc, connections, mdVars, ledgerVars>>

PriceEvents == {[instrument |-> "EUR_USD", symbol |-> "", price |-> 11]}

TransactionEvents ==
    {[type |-> "ORDER_FILL", positionId |-> "p1", orderId |-> "o1",
      units |-> 2, averagePrice |-> 10],
     [type |-> "ORDER_CANCEL", orderId |-> "o1"]}

\* socket.on('pricing'): the venue sends events to a subscribed stream
StreamPricing(k, data) ==
    /\ BrokerSocket(k)
    /\ sockets[k].state = "connected"
    /\ sockets[k].subs # <<>>
    /\ sessions' = [sessions EXCEPT
                       ![sockets[k].owner] = handlePriceUpdate(@, data)]
    /\ last' = Event
    /\ UNCHANGED <<service, authVars, otherVars, pc, connections, mdVars, ledgerVars, sockets>>

\* socket.on('transaction')
StreamTransaction(k, data) ==
    /\ BrokerSocket(k)
    /\ sockets[k].state = "connected"
    /\ sockets[k].subs # <<>>
    /\ sessions' = [sessions EXCEPT
                       ![sockets[k].owner] = handleTransactionUpdate(@, data)]
    /\ last' = Event
    /\ UNCHANGED <<service, authVars, otherVars, pc, connections, mdVars, ledgerVars, sockets>>

----------------------------------------------------------------------------
(* BrokerIntegration.disconnect / disconnectAll *)

\* disconnect without its `if (connection)` guard: reading .stream of a
\* missing entry fails
disconnectUnguarded(conns, socks, brokerId, closeOk) ==
    IF brokerId \notin DOMAIN conns
    THEN [conns |-> conns, socks |-> socks, ok |-> FALSE]
    ELSE LET connection == sessions[conns[brokerId]]
         IN  IF connection.stream # 0 /\ ~closeOk
             THEN [conns |-> conns, socks |-> socks, ok |-> FALSE]
             ELSE [conns |-> MapDelete(conns, brokerId),
                   socks |-> IF connection.stream # 0
                             THEN CloseSocket(socks, connection.stream)
                             ELSE socks,
                   ok    |-> TRUE]

\* disconnect(brokerId) as a function of the registry and the sockets:
\* closeOk is whether connection.stream.disconnect() returns (it is not
\* guarded by a try, so a failure leaves the entry and reaches the caller)
disconnect(conns, socks, brokerId, closeOk) ==
    IF brokerId \notin DOMAIN conns
    THEN [conns |-> conns, socks |-> socks, ok |-> TRUE]
    ELSE LET connection == sessions[conns[brokerId]]
         IN  IF connection.stream # 0 /\ ~closeOk
             THEN [conns |-> conns, socks |-> socks, ok |-> FALSE]
             ELSE [conns |-> MapDelete(conns, brokerId),
                   socks |-> IF connection.stream # 0
                             THEN CloseSocket(socks, connection.stream)
                             ELSE socks,
                   ok    |-> TRUE]

Disconnect(brokerId, closeOk) ==
    /\ service = "broker"
    /\ LET r == disconnect(connections, sockets, brokerId, closeOk)
       IN  /\ connections' = r.conns
           /\ sockets' = r.socks
           /\ last' = [op |-> "disconnect", key |-> brokerId, ok |-> r.ok]
    /\ UNCHANGED <<service, authVars, otherVars, sessions, pc, mdVars, ledgerVars>>

\* for (const [brokerId] of this.connections) this.disconnect(brokerId):
\* the loop ends at the first disconnect that fails
RECURSIVE disconnectEach(_, _, _, _)
disconnectEach(conns, socks, todo, closeOk) ==
    IF todo = {}
    THEN [conns |-> conns, socks |-> socks, ok |-> TRUE]
    ELSE LET brokerId == CHOOSE b \in todo : TRUE
             r == disconnect(conns, socks, brokerId, closeOk)
         IN  IF r.ok
             THEN disconnectEach(r.conns, r.socks, todo \ {brokerId}, closeOk)
             ELSE r

DisconnectAll(closeOk) ==
    /\ service = "broker"
    /\ LET r == disconnectEach(connections, sockets, DOMAIN connections, closeOk)
       IN  /\ connections' = r.conns
           /\ sockets' = r.socks
           /\ last' = [op |-> "disconnectAll", key |-> "", ok |-> r.ok]
    /\ UNCHANGED <<service, authVars, otherVars, sessions, pc, mdVars, ledgerVars>>

----------------------------------------------------------------------------
(* BrokerIntegration: the state after construction and the next-state relation *)

InitBroker ==
    /\ service = "broker"
    /\ sessions = <<>>
    /\ pc = <<>>
    /\ connections = EmptyMap
    /\ mdConnections = <<>>
    /\ timers = <<>>
    /\ sockets = EmptyMap
    /\ ledger = NoLedger
    /\ calc = NoCalc
    /\ last = NoEvent
    /\ AuthIdle
    /\ GatewayIdle
    /\ FeedIdle

NextBroker ==
    \/ \E brokerId \in BrokerIds, isDemo \in BOOLEAN : ConnectToBroker(brokerId, isDemo)
    \/ \E s \in 1..MaxSessions, resp \in {"ok", "empty", "fail"} : AuthResponse(s, resp)
    \/ \E s \in 1..MaxSessions, ok \in BOOLEAN, ioOk \in BOOLEAN : AccountResponse(s, ok, ioOk)
    \/ \E k \in 1..MaxSessions : StreamConnect(k)
    \/ \E k \in 1..MaxSessions : StreamConnectError(k)
    \/ \E k \in 1..MaxSessions : StreamDrop(k)
    \/ \E k \in 1..MaxSessions, data \in PriceEvents : StreamPricing(k, data)
    \/ \E k \in 1..MaxSessions, data \in TransactionEvents : StreamTransaction(k, data)
    \/ \E brokerId \in BrokerIds, closeOk \in BOOLEAN : Disconnect(brokerId, closeOk)
    \/ \E closeOk \in BOOLEAN : DisconnectAll(closeOk)

SpecBroker == InitBroker /\ [][NextBroker]_vars

----------------------------------------------------------------------------
(* MarketDataService: the connections Map and the reconnect timers *)

Symbols == {"EUR_USD", "GBP_USD"}

ReconnectDelayMs == 5000

\* the clock advances in steps of this size
TickMs == ReconnectDelayMs

MdKeys(conns) == {conns[i].symbol : i \in 1..Len(conns)}

MdIndex(conns, symbol) == CHOOSE i \in 1..Len(conns) : conns[i].symbol = symbol

\* connections.get(symbol), 0 when absent
MdGet(conns, symbol) ==
    IF symbol \in MdKeys(conns) THEN conns[MdIndex(conns, symbol)].sock ELSE 0

\* connections.set(symbol, socket): an existing key keeps its place
MdSet(conns, symbol, sock) ==
    IF symbol \in MdKeys(conns)
    THEN [conns EXCEPT ![MdIndex(conns, symbol)].sock = sock]
    ELSE Append(conns, [symbol |-> symbol, sock |-> sock])

\* connections.delete(symbol)
MdDelete(conns, symbol) ==
    SelectSeq(conns, LAMBDA e : e.symbol # symbol)

\* a closed socket that the Map no longer holds is unreachable and inert
Collect(socks, conns) ==
    [k \in {j \in DOMAIN socks :
               socks[j].state # "closed" \/ \E i \in 1..Len(conns) : conns[i].sock = j}
        |-> socks[k]]

Live(socks) == Cardinality({k \in DOMAIN socks : socks[k].state # "closed"})

\* setTimeout(() => this.connectToStream(symbol, callback), 5000)
ReconnectTimer(symbol) == [symbol |-> symbol, delay |-> ReconnectDelayMs, waited |-> 0]

\* a 'disconnect' handler that only logs: no reconnect is scheduled
OnDisconnectLogsOnly(tmrs, socks, k) == tmrs

\* the 'disconnect' handler of connectToStream, run when socket k raises it
OnDisconnect(tmrs, socks, k) == Append(tmrs, ReconnectTimer(socks[k].symbol))

\* the body of connectToStream once io(...) has returned a socket
connectToStream(conns, socks, symbol) ==
    LET id    == FreshId(socks)
        conn2 == MdSet(conns, symbol, id)
    IN  [conns |-> conn2,
         socks |-> Collect(MapSet(socks, id, NewSocket(0, symbol)), conn2)]

\* a caller's connectToStream(symbol, callback); ioOk is whether io(...) returns
ConnectToStream(symbol, ioOk) ==
    /\ service = "md"
    /\ Live(sockets) + Len(timers) < MaxSockets
    /\ IF ioOk
       THEN LET r == connectToStream(mdConnections, sockets, symbol)
            IN  /\ mdConnections' = r.conns
                /\ sockets' = r.socks
       ELSE UNCHANGED <<mdConnections, sockets>>
    /\ last' = [op |-> "connectToStream", key |-> symbol, ok |-> ioOk]
    /\ UNCHANGED <<service, authVars, otherVars, brokerVars, ledgerVars, timers>>

MdSocket(k) ==
    /\ service = "md"
    /\ k \in DOMAIN sockets

\* socket.on('connect')
MdConnect(k) ==
    /\ MdSocket(k)
    /\ sockets[k].state = "connecting"
    /\ sockets' = [sockets EXCEPT
                      ![k].state = "connected",
                      ![k].subs = Append(@, [symbol |-> sockets[k].symbol])]
    /\ last' = Event
    /\ UNCHANGED <<service, authVars, otherVars, brokerVars, mdVars, ledgerVars>>

\* 'connect_error' has no handler; the library starts the next attempt
MdConnectError(k) ==
    /\ MdSocket(k)
    /\ sockets[k].state = "connecting"
    /\ sockets[k].attempts < MaxAttempts
    /\ sockets' = [sockets EXCEPT ![k].attempts = @ + 1]
    /\ last' = Event
    /\ UNCHANGED <<service, authVars, otherVars, brokerVars, mdVars, ledgerVars>>

\* the network drops the stream: the library raises 'disconnect' (the
\* handler arms the timer) and starts to reconnect the same socket
MdDrop(k) ==
    /\ MdSocket(k)
    /\ sockets[k].state = "connected"
    /\ Live(sockets) + Len(timers) < MaxSockets
    /\ sockets' = [sockets EXCEPT ![k].state = "connecting",
                                  ![k].attempts = 1,
                                  ![k].subs = <<>>]
    /\ timers' = OnDisconnect(timers, sockets, k)
    /\ last' = [op |-> "streamDrop", key |-> sockets[k].symbol, ok |-> TRUE]
    /\ UNCHANGED <<service, authVars, otherVars, brokerVars, ledgerVars, mdConnections>>

TimerDue(t) == t.waited >= t.delay

\* time passes; a due timer runs before the clock moves on
Tick ==
    /\ service = "md"
    /\ timers # <<>>
    /\ \A i \in 1..Len(timers) : ~TimerDue(timers[i])
    /\ timers' = [i \in 1..Len(timers) |-> [timers[i] EXCEPT !.waited = @ + TickMs]]
    /\ last' = Event
    /\ UNCHANGED <<service, authVars, otherVars, brokerVars, ledgerVars, mdConnections, sockets>>

\* the timer callback: connectToStream(symbol, callback) with no caller to
\* receive a failure of io(...).  The callback drops the promise, so when
\* io(...) throws the rejection is unhandled: the runtime either reports it
\* and goes on, or (fatal) ends the process, and with it every socket, every
\* timer and the registry; nothing runs in a process that has ended
TimerFire(ioOk, fatal) ==
    /\ service = "md"
    /\ timers # <<>>
    /\ TimerDue(Head(timers))
    /\ IF ioOk
       THEN LET r == connectToStream(mdConnections, sockets, Head(timers).symbol)
            IN  /\ mdConnections' = r.conns
                /\ sockets' = r.socks
                /\ timers' = Tail(timers)
                /\ UNCHANGED service
       ELSE IF fatal
       THEN /\ mdConnections' = <<>>
            /\ sockets' = EmptyMap
            /\ timers' = <<>>
            /\ service' = "exited"
       ELSE /\ timers' = Tail(timers)
            /\ UNCHANGED <<service, mdConnections, sockets>>
    /\ last' = [op |-> "reconnect", key |-> Head(timers).symbol, ok |-> ioOk]
    /\ UNCHANGED <<authVars, otherVars, brokerVars, ledgerVars>>

----------------------------------------------------------------------------
(* MarketDataService.disconnect / disconnectAll *)

\* disconnect(symbol); closeOk is whether connection.disconnect() returns
MdDisconnect(symbol, closeOk) ==
    /\ service = "md"
    /\ LET k == MdGet(mdConnections, symbol)
       IN  IF k = 0
           THEN /\ last' = [op |-> "disconnect", key |-> symbol, ok |-> TRUE]
                /\ UNCHANGED <<mdConnections, timers, sockets>>
           ELSE IF ~closeOk
           THEN /\ last' = [op |-> "disconnect", key |-> symbol, ok |-> FALSE]
                /\ UNCHANGED <<mdConnections, timers, sockets>>
           ELSE /\ timers' = IF RaisesDisconnect(sockets, k)
                             THEN OnDisconnect(timers, sockets, k)
                             ELSE timers
                /\ mdConnections' = MdDelete(mdConnections, symbol)
                /\ sockets' = Collect(CloseSocket(sockets, k),
                                      MdDelete(mdConnections, symbol))
                /\ last' = [op |-> "disconnect", key |-> symbol, ok |-> TRUE]
    /\ UNCHANGED <<service, authVars, otherVars, brokerVars, ledgerVars>>

\* the loop of disconnectAll from entry i on; the entry at failAt is the
\* first whose disconnect() fails, which ends the loop
RECURSIVE closeEach(_, _, _, _, _)
closeEach(conns, socks, tmrs, i, failAt) ==
    IF i > Len(conns)
    THEN [socks |-> socks, timers |-> tmrs, ok |-> TRUE]
    ELSE IF i = failAt
    THEN [socks |-> socks, timers |-> tmrs, ok |-> FALSE]
    ELSE LET k == conns[i].sock
         IN  closeEach(conns,
                       CloseSocket(socks, k),
                       IF RaisesDisconnect(socks, k) THEN OnDisconnect(tmrs, socks, k)
                                                     ELSE tmrs,
                       i + 1, failAt)

\* disconnectAll(): connections.clear() runs only when the loop completes
MdDisconnectAll(failAt) ==
    /\ service = "md"
    /\ LET r == closeEach(mdConnections, sockets, timers, 1, failAt)
       IN  /\ timers' = r.timers
           /\ mdConnections' = IF r.ok THEN <<>> ELSE mdConnections
           /\ sockets' = Collect(r.socks, IF r.ok THEN <<>> ELSE mdConnections)
           /\ last' = [op |-> "disconnectAll", key |-> "", ok |-> r.ok]
    /\ UNCHANGED <<service, authVars, otherVars, brokerVars, ledgerVars>>

----------------------------------------------------------------------------
(* MarketDataService: the state after construction and the next-state relation *)

InitMd ==
    /\ service = "md"
    /\ sessions = <<>>
    /\ pc = <<>>
    /\ connections = EmptyMap
    /\ mdConnections = <<>>
    /\ timers = <<>>
    /\ sockets = EmptyMap
    /\ ledger = NoLedger
    /\ calc = NoCalc
    /\ last = NoEvent
    /\ AuthIdle
    /\ GatewayIdle
    /\ FeedIdle

SocketIds == 1..(MaxSockets + Cardinality(Symbols))

NextMd ==
    \/ \E symbol \in Symbols, ioOk \in BOOLEAN : ConnectToStream(symbol, ioOk)
    \/ \E k \in SocketIds : MdConnect(k)
    \/ \E k \in SocketIds : MdConnectError(k)
    \/ \E k \in SocketIds : MdDrop(k)
    \/ Tick
    \/ \E ioOk \in BOOLEAN, fatal \in BOOLEAN : TimerFire(ioOk, fatal)
    \/ \E symbol \in Symbols, closeOk \in BOOLEAN : MdDisconnect(symbol, closeOk)
    \/ \E failAt \in 0..Cardinality(Symbols) : MdDisconnectAll(failAt)

SpecMd == InitMd /\ [][NextMd]_vars

\* a subscriber left to the network: callers connect a symbol that is not
\* connected and never disconnect
ConnectOnce(symbol) ==
    /\ symbol \notin MdKeys(mdConnections)
    /\ ConnectToStream(symbol, TRUE)

NextStream ==
    \/ \E symbol \in Symbols : ConnectOnce(symbol)
    \/ \E k \in SocketIds : MdConnect(k)
    \/ \E k \in SocketIds : MdConnectError(k)
    \/ \E k \in SocketIds : MdDrop(k)
    \/ Tick
    \/ \E ioOk \in BOOLEAN, fatal \in BOOLEAN : TimerFire(ioOk, fatal)

SpecStream == InitMd /\ [][NextStream]_vars

\* the event loop runs every armed timer once its delay has passed
FairSpecStream ==
    /\ SpecStream
    /\ WF_vars(Tick)
    /\ WF_vars(\E ioOk \in BOOLEAN, fatal \in BOOLEAN : TimerFire(ioOk, fatal))

----------------------------------------------------------------------------
(* Both registries: a behaviour of either singleton *)

NextConn == NextBroker \/ NextMd

SpecConn == (InitBroker \/ InitMd) /\ [][NextConn]_vars

\* the stream of a session and the network: callers connect in the default
\* (demo) mode and disconnect; the venue answers, the network connects,
\* refuses and drops the stream
NextBrokerStream ==
    \/ ConnectToBroker("oanda", TRUE)
    \/ \E s \in 1..MaxSessions, resp \in {"ok", "empty", "fail"} : AuthResponse(s, resp)
    \/ \E s \in 1..MaxSessions, ok \in BOOLEAN, ioOk \in BOOLEAN : AccountResponse(s, ok, ioOk)
    \/ \E k \in 1..MaxSessions : StreamConnect(k)
    \/ \E k \in 1..MaxSessions : StreamConnectError(k)
    \/ \E k \in 1..MaxSessions : StreamDrop(k)
    \/ \E k \in 1..MaxSessions, data \in PriceEvents : StreamPricing(k, data)
    \/ \E k \in 1..MaxSessions, data \in TransactionEvents : StreamTransaction(k, data)
    \/ \E closeOk \in BOOLEAN : Disconnect("oanda", closeOk)

SpecBrokerStream == InitBroker /\ [][NextBrokerStream]_vars

----------------------------------------------------------------------------
(* The ledger handlers applied to a connection object *)

MaxPrice == 3
MaxUnits == 2

Prices == 1..MaxPrice
Sides == {"BUY", "SELL"}
PositionIds == {"p1", "p2"}
OrderIds == {"o1", "o2"}

\* a position as the venue reports it, before any price has reached it
OpenPositions ==
    [symbol : {"EUR_USD"}, side : Sides, units : 1..MaxUnits, averagePrice : Prices]

Orders == [symbol : {"EUR_USD"}, side : {"BUY"}, units : {1}]

\* the connection objects handed to the handlers: the one connectToBroker
\* builds (both Maps empty) and objects whose Maps hold entries
Ledgers ==
    {[positions |-> ps, orders |-> os] :
        ps \in UNION {[ids -> OpenPositions] : ids \in SUBSET PositionIds},
        os \in UNION {[ids -> Orders] : ids \in {{}, OrderIds}}}

LedgerPrices == [instrument : {"EUR_USD", "GBP_USD"}, symbol : {""}, price : Prices]

LedgerTransactions ==
    [type : {"ORDER_FILL"}, positionId : {"p1"}, orderId : {"o1"},
     units : 0..MaxUnits, averagePrice : Prices]
    \cup [type : {"ORDER_CANCEL", "HEARTBEAT"}, orderId : {"o1"}]

InitLedger ==
    /\ service = "ledger"
    /\ sessions = <<>>
    /\ pc = <<>>
    /\ connections = EmptyMap
    /\ mdConnections = <<>>
    /\ timers = <<>>
    /\ sockets = EmptyMap
    /\ ledger \in Ledgers
    /\ calc = NoCalc
    /\ last = NoEvent
    /\ AuthIdle
    /\ GatewayIdle
    /\ FeedIdle

\* a 'pricing' event handed to handlePriceUpdate
PriceUpdate(data) ==
    /\ service = "ledger"
    /\ ledger' = handlePriceUpdate(ledger, data)
    /\ last' = [op |-> "pricing", key |-> OrElse(data.instrument, data.symbol), ok |-> TRUE]
    /\ UNCHANGED <<service, authVars, otherVars, brokerVars, mdVars, sockets, calc>>

\* a 'transaction' event handed to handleTransactionUpdate
TransactionUpdate(data) ==
    /\ service = "ledger"
    /\ ledger' = handleTransactionUpdate(ledger, data)
    /\ last' = [op |-> data.type, key |-> data.orderId, ok |-> TRUE]
    /\ UNCHANGED <<service, authVars, otherVars, brokerVars, mdVars, sockets, calc>>

NextLedger ==
    \/ \E data \in LedgerPrices : PriceUpdate(data)
    \/ \E data \in LedgerTransactions : TransactionUpdate(data)

SpecLedger == InitLedger /\ [][NextLedger]_vars

----------------------------------------------------------------------------
(* calculateUnrealizedPnL on its own *)

CalcPositions == [side : Sides, units : 0..MaxUnits, averagePrice : Prices]

InitPnL ==
    /\ service = "pnl"
    /\ sessions = <<>>
    /\ pc = <<>>
    /\ connections = EmptyMap
    /\ mdConnections = <<>>
    /\ timers = <<>>
    /\ sockets = EmptyMap
    /\ ledger = NoLedger
    /\ calc \in [position : CalcPositions, currentPrice : Prices,
                 result : {0}, done : {FALSE}]
    /\ last = NoEvent
    /\ AuthIdle
    /\ GatewayIdle
    /\ FeedIdle

\* the call: the function reads the position and assigns nothing
Calculate ==
    /\ service = "pnl"
    /\ ~calc.done
    /\ calc' = [calc EXCEPT
                   !.result = calculateUnrealizedPnL(calc.position, calc.currentPrice),
                   !.done = TRUE]
    /\ last' = [op |-> "calculateUnrealizedPnL", key |-> "", ok |-> TRUE]
    /\ UNCHANGED <<service, authVars, otherVars, brokerVars, mdVars, sockets, ledger>>

NextPnL == Calculate

SpecPnL == InitPnL /\ [][NextPnL]_vars

----------------------------------------------------------------------------
(* placeOandaOrder: the payload it builds *)

\* an optional argument: <<>> when it is not supplied (undefined), <<v>> when it is
Optional(S) == {<<>>} \cup {<<v>> : v \in S}

\* if (x): undefined and 0 are falsy
Truthy(x) == x # <<>> /\ x[1] # 0

\* the values a caller passes as side: placeOandaOrder tests side === 'BUY'
\* and takes any other string, 'buy' included, without a check
OrderSides == Sides \cup {"buy"}

\* orderParams as placeOandaOrder takes them, unvalidated; type "" is a type
\* that is not supplied, and a supplied price may be 0
OrderParams ==
    [symbol : {"EUR_USD"}, side : OrderSides, units : 1..MaxUnits,
     type : {"", "MARKET", "LIMIT"},
     price : Optional(0..MaxPrice), stopLoss : Optional(0..MaxPrice),
     takeProfit : Optional(0..MaxPrice)]

\* a payload that carries the price of every order that names one
placeOandaOrderPayloadAlwaysPriced(orderParams) ==
    [type |-> orderParams.type,
     instrument |-> orderParams.symbol,
     units |-> IF orderParams.side = "BUY" THEN orderParams.units ELSE -orderParams.units,
     timeInForce |-> "FOK",
     positionFill |-> "DEFAULT",
     price |-> IF orderParams.price = <<>> THEN 0 ELSE orderParams.price[1]]

\* orderData.order as placeOandaOrder builds it from orderParams
placeOandaOrderPayload(orderParams) ==
    LET type == IF orderParams.type = "" THEN "MARKET" ELSE orderParams.type
        base == [type |-> type,
                 instrument |-> orderParams.symbol,
                 units |-> IF orderParams.side = "BUY" THEN orderParams.units
                                                       ELSE -orderParams.units,
                 timeInForce |-> "FOK",
                 positionFill |-> "DEFAULT"]
        priced == IF type = "LIMIT" /\ Truthy(orderParams.price)
                  THEN Merge(base, [price |-> orderParams.price[1]])
                  ELSE base
        stopped == IF Truthy(orderParams.stopLoss)
                   THEN Merge(priced, [stopLossOnFill |-> [price |-> orderParams.stopLoss[1]]])
                   ELSE priced
    IN  IF Truthy(orderParams.takeProfit)
        THEN Merge(stopped, [takeProfitOnFill |-> [price |-> orderParams.takeProfit[1]]])
        ELSE stopped

InitPayload ==
    /\ service = "payload"
    /\ sessions = <<>>
    /\ pc = <<>>
    /\ connections = EmptyMap
    /\ mdConnections = <<>>
    /\ timers = <<>>
    /\ sockets = EmptyMap
    /\ ledger = NoLedger
    /\ calc = NoCalc
    /\ last = NoEvent
    /\ AuthIdle
    /\ calls = <<>>
    /\ requests = <<>>
    /\ order \in [params : OrderParams, payload : {[units |-> 0]}, done : {FALSE}]
    /\ FeedIdle

\* the part of placeOandaOrder before the request is sent
BuildPayload ==
    /\ service = "payload"
    /\ ~order.done
    /\ order' = [order EXCEPT !.payload = placeOandaOrderPayload(order.params),
                              !.done = TRUE]
    /\ last' = [op |-> "placeOrder", key |-> "", ok |-> TRUE]
    /\ UNCHANGED <<service, authVars, brokerVars, mdVars, sockets, ledgerVars, calls, requests,
                   feedVars>>

NextPayload == BuildPayload

SpecPayload == InitPayload /\ [][NextPayload]_vars

----------------------------------------------------------------------------
(* The REST calls of a session: placeOrder, getPositions and the two account
   calls, each one axios request *)

MaxCalls == 2

RequestTimeoutMs == 10000

RestCalls == {"authenticate", "getAccountInfo", "placeOrder", "getPositions"}

\* the timeout option of the call's axios request; 0 is axios's default, no timeout
TimeoutOf(op) == IF op = "authenticate" THEN RequestTimeoutMs ELSE 0

\* the orders placed in this part
GatewayOrders ==
    {[symbol |-> "EUR_USD", side |-> "BUY", units |-> 1, type |-> "",
      price |-> <<>>, stopLoss |-> <<>>, takeProfit |-> <<>>],
     [symbol |-> "EUR_USD", side |-> "SELL", units |-> 1, type |-> "LIMIT",
      price |-> <<1>>, stopLoss |-> <<>>, takeProfit |-> <<>>]}

NewRequest(call, op, body) ==
    [call |-> call, op |-> op, body |-> body, timeout |-> TimeoutOf(op),
     waited |-> 0, state |-> "pending"]

\* a call of op on the session: the request is sent and the call awaits it
RestCall(op, body) ==
    /\ service = "gateway"
    /\ Len(calls) < MaxCalls
    /\ calls' = Append(calls, [op |-> op, state |-> "awaiting", orderId |-> ""])
    /\ requests' = Append(requests, NewRequest(Len(calls) + 1, op, body))
    /\ last' = [op |-> op, key |-> "", ok |-> TRUE]
    /\ UNCHANGED <<service, authVars, brokerVars, mdVars, sockets, ledgerVars, order, feedVars>>

\* placeOrder(connection, orderParams)
PlaceOrder(orderParams) == RestCall("placeOrder", placeOandaOrderPayload(orderParams))

\* getPositions(connection), authenticate(connection), getAccountInfo(connection)
GetPositions == RestCall("getPositions", [none |-> TRUE])
Authenticate == RestCall("authenticate", [none |-> TRUE])
GetAccountInfo == RestCall("getAccountInfo", [none |-> TRUE])

\* the venue's answer to a request: its HTTP status and what response.data is
\*   "full"  an object carrying the field the call reads (accounts,
\*           positions, the order)
\*   "bare"  an object without that field ({})
\*   "none"  null
\* a network error leaves the request as a status outside 2xx does
Answers == [status : {200, 201, 500}, body : {"full", "bare", "none"}]

\* axios's default validateStatus: the awaited promise resolves on 2xx and
\* rejects otherwise
axiosResolves(answer) == answer.status >= 200 /\ answer.status < 300

\* what the method does with the response after its await: authenticateOanda
\* throws unless the status is 200 and then reads response.data.accounts[0];
\* getOandaPositions reads response.data.positions; getOandaAccountInfo and
\* placeOandaOrder take response.data as it is
ThrowsAfterAwait(op, answer) ==
    CASE op = "authenticate" -> answer.status # 200 \/ answer.body # "full"
      [] op = "getPositions" -> answer.body = "none"
      [] OTHER -> FALSE

\* the order id the caller of placeOrder finds in the data it is returned
NamedOrder(op, answer, orderId) ==
    IF op = "placeOrder" /\ answer.body = "full" THEN orderId ELSE ""

\* a placeOrder that sends the order again when the request fails
RespondRetrying(i, answer, orderId) ==
    /\ service = "gateway"
    /\ i \in 1..Len(requests)
    /\ requests[i].state = "pending"
    /\ IF axiosResolves(answer)
       THEN /\ requests' = [requests EXCEPT ![i].state = "answered"]
            /\ IF ThrowsAfterAwait(requests[i].op, answer)
               THEN /\ calls' = [calls EXCEPT ![requests[i].call].state = "rejected"]
                    /\ last' = [op |-> "callRejected", key |-> requests[i].op, ok |-> FALSE]
               ELSE /\ calls' = [calls EXCEPT
                                    ![requests[i].call].state = "resolved",
                                    ![requests[i].call].orderId =
                                        NamedOrder(requests[i].op, answer, orderId)]
                    /\ last' = [op |-> "callResolved",
                                key |-> NamedOrder(requests[i].op, answer, orderId),
                                ok |-> TRUE]
       ELSE /\ requests' = Append([requests EXCEPT ![i].state = "failed"],
                                  NewRequest(requests[i].call, requests[i].op,
                                             requests[i].body))
            /\ Len(requests) < 2 * MaxCalls
            /\ last' = [op |-> "event", key |-> "", ok |-> TRUE]
            /\ UNCHANGED calls
    /\ UNCHANGED <<service, authVars, brokerVars, mdVars, sockets, ledgerVars, order, feedVars>>

\* a getPositions that reconciles: the venue's answer (here: no open position)
\* replaces the session's positions map
RespondReconciling(i, answer, orderId) ==
    /\ service = "gateway"
    /\ i \in 1..Len(requests)
    /\ requests[i].state = "pending"
    /\ requests' = [requests EXCEPT ![i].state = IF axiosResolves(answer) THEN "answered"
                                                                           ELSE "failed"]
    /\ IF axiosResolves(answer) /\ ~ThrowsAfterAwait(requests[i].op, answer)
       THEN /\ calls' = [calls EXCEPT
                            ![requests[i].call].state = "resolved",
                            ![requests[i].call].orderId =
                                NamedOrder(requests[i].op, answer, orderId)]
            /\ last' = [op |-> "callResolved",
                        key |-> NamedOrder(requests[i].op, answer, orderId),
                        ok |-> TRUE]
            /\ ledger' = IF requests[i].op = "getPositions"
                         THEN [ledger EXCEPT !.positions = EmptyMap]
                         ELSE ledger
       ELSE /\ calls' = [calls EXCEPT ![requests[i].call].state = "rejected"]
            /\ last' = [op |-> "callRejected", key |-> requests[i].op, ok |-> FALSE]
            /\ UNCHANGED ledger
    /\ UNCHANGED <<service, authVars, brokerVars, mdVars, sockets, calc, order,
                   feedVars>>

\* the venue answers request i. A status outside 2xx or a network error makes
\* axios reject: the request has failed and the rejection leaves the call as
\* it is. On 2xx the await returns and the rest of the method runs: it
\* resolves the call with response.data (for placeOrder the caller finds the
\* order there), or throws, which rejects the call although the request was
\* answered
Respond(i, answer, orderId) ==
    /\ service = "gateway"
    /\ i \in 1..Len(requests)
    /\ requests[i].state = "pending"
    /\ requests' = [requests EXCEPT ![i].state = IF axiosResolves(answer) THEN "answered"
                                                                           ELSE "failed"]
    /\ IF axiosResolves(answer) /\ ~ThrowsAfterAwait(requests[i].op, answer)
       THEN /\ calls' = [calls EXCEPT
                            ![requests[i].call].state = "resolved",
                            ![requests[i].call].orderId =
                                NamedOrder(requests[i].op, answer, orderId)]
            /\ last' = [op |-> "callResolved",
                        key |-> NamedOrder(requests[i].op, answer, orderId),
                        ok |-> TRUE]
       ELSE /\ calls' = [calls EXCEPT ![requests[i].call].state = "rejected"]
            /\ last' = [op |-> "callRejected", key |-> requests[i].op, ok |-> FALSE]
    /\ UNCHANGED <<service, authVars, brokerVars, mdVars, sockets, ledgerVars, order, feedVars>>

\* axios aborts a request whose timeout has passed
RequestTimeout(i) ==
    /\ service = "gateway"
    /\ i \in 1..Len(requests)
    /\ requests[i].state = "pending"
    /\ requests[i].timeout > 0
    /\ requests[i].waited >= requests[i].timeout
    /\ requests' = [requests EXCEPT ![i].state = "timedOut"]
    /\ calls' = [calls EXCEPT ![requests[i].call].state = "rejected"]
    /\ last' = [op |-> "callRejected", key |-> requests[i].op, ok |-> FALSE]
    /\ UNCHANGED <<service, authVars, brokerVars, mdVars, sockets, ledgerVars, order, feedVars>>

\* a pending request that carries a timeout has a timer running
Timed(r) == r.state = "pending" /\ r.timeout > 0

\* time passes for the requests that have a timer; a due timeout runs first
GatewayTick ==
    /\ service = "gateway"
    /\ \E i \in 1..Len(requests) : Timed(requests[i])
    /\ \A i \in 1..Len(requests) :
          Timed(requests[i]) => requests[i].waited < requests[i].timeout
    /\ requests' = [i \in 1..Len(requests) |->
                       IF Timed(requests[i])
                       THEN [requests[i] EXCEPT !.waited = @ + TickMs]
                       ELSE requests[i]]
    /\ last' = Event
    /\ UNCHANGED <<service, authVars, brokerVars, mdVars, sockets, ledgerVars, calls, order,
                   feedVars>>

InitGateway ==
    /\ service = "gateway"
    /\ sessions = <<>>
    /\ pc = <<>>
    /\ connections = EmptyMap
    /\ mdConnections = <<>>
    /\ timers = <<>>
    /\ sockets = EmptyMap
    /\ ledger = NoLedger
    /\ calc = NoCalc
    /\ last = NoEvent
    /\ AuthIdle
    /\ GatewayIdle
    /\ FeedIdle

NextGateway ==
    \/ \E orderParams \in GatewayOrders : PlaceOrder(orderParams)
    \/ GetPositions
    \/ Authenticate
    \/ GetAccountInfo
    \/ \E i \in 1..MaxCalls, answer \in Answers, orderId \in OrderIds :
          Respond(i, answer, orderId)
    \/ \E i \in 1..MaxCalls : RequestTimeout(i)
    \/ GatewayTick

\* a session that holds both positions and both working orders
HeldLedger ==
    CHOOSE l \in Ledgers : DOMAIN l.positions = PositionIds /\ DOMAIN l.orders = OrderIds

\* the REST calls of a session whose ledger is empty or held
InitHeld ==
    /\ service = "gateway"
    /\ sessions = <<>>
    /\ pc = <<>>
    /\ connections = EmptyMap
    /\ mdConnections = <<>>
    /\ timers = <<>>
    /\ sockets = EmptyMap
    /\ ledger \in {NoLedger, HeldLedger}
    /\ calc = NoCalc
    /\ last = NoEvent
    /\ AuthIdle
    /\ GatewayIdle
    /\ FeedIdle

SpecHeld == InitHeld /\ [][NextGateway]_vars

SpecGateway == InitGateway /\ [][NextGateway]_vars

\* timers run: the clock advances and a due timeout aborts its request; the
\* venue is free never to answer
FairSpecGateway ==
    /\ SpecGateway
    /\ WF_vars(GatewayTick)
    /\ \A i \in 1..MaxCalls : WF_vars(RequestTimeout(i))

----------------------------------------------------------------------------
(* MarketDataService: the snapshot cache and getHistoricalData *)

MaxClock == 3
MaxFetches == 2

CacheTtlMs == 60000

\* the clock of this part advances in steps of this size
CacheTickMs == 30000

CacheSymbols == {"EUR_USD"}
Timeframes == {"1h", "realtime"}
HistoryTimeframes == {"1h", "1d"}

\* what updateCache is handed: a tick (no timeframe, "") or data naming one
Snapshots == [timeframe : {"", "1h"}, price : 1..2]

\* the candles of an upstream answer
Candles == {<<>>, <<[close |-> 1]>>}

\* `${symbol}_${timeframe}`
CacheKey(symbol, timeframe) == <<symbol, "_", timeframe>>

\* updateCache(symbol, data) at Date.now() = t
updateCache(c, symbol, data, t) ==
    LET timeframe == IF "timeframe" \in DOMAIN data THEN data.timeframe ELSE ""
    IN  MapSet(c, CacheKey(symbol, OrElse(timeframe, "realtime")),
               [data |-> data, timestamp |-> t])

\* getCachedData with a window that still serves an entry aged exactly the limit
getCachedDataInclusive(c, symbol, timeframe, t) ==
    LET key == CacheKey(symbol, timeframe)
    IN  IF key \in DOMAIN c /\ t - c[key].timestamp <= CacheTtlMs
        THEN [key |-> key, hit |-> TRUE, data |-> <<c[key].data>>]
        ELSE [key |-> key, hit |-> FALSE, data |-> <<>>]

\* getCachedData(symbol, timeframe) at Date.now() = t; a miss is null
getCachedData(c, symbol, timeframe, t) ==
    LET key == CacheKey(symbol, timeframe)
    IN  IF key \in DOMAIN c /\ t - c[key].timestamp < CacheTtlMs
        THEN [key |-> key, hit |-> TRUE, data |-> <<c[key].data>>]
        ELSE [key |-> key, hit |-> FALSE, data |-> <<>>]

UpdateCache(symbol, data) ==
    /\ service = "cache"
    /\ cache' = updateCache(cache, symbol, data, now)
    /\ last' = [op |-> "updateCache", key |-> symbol, ok |-> TRUE]
    /\ UNCHANGED <<service, authVars, brokerVars, mdVars, sockets, ledgerVars, gatewayVars,
                   now, fetches, got, tick, delivered>>

\* a getCachedData that deletes the entry it finds stale
GetCachedDataEvicting(symbol, timeframe) ==
    /\ service = "cache"
    /\ got' = getCachedData(cache, symbol, timeframe, now)
    /\ cache' = IF got'.key \in DOMAIN cache /\ ~got'.hit
                THEN MapDelete(cache, got'.key)
                ELSE cache
    /\ last' = [op |-> "getCachedData", key |-> symbol, ok |-> TRUE]
    /\ UNCHANGED <<service, authVars, brokerVars, mdVars, sockets, ledgerVars, gatewayVars,
                   now, fetches, tick, delivered>>

GetCachedData(symbol, timeframe) ==
    /\ service = "cache"
    /\ got' = getCachedData(cache, symbol, timeframe, now)
    /\ last' = [op |-> "getCachedData", key |-> symbol, ok |-> TRUE]
    /\ UNCHANGED <<service, authVars, brokerVars, mdVars, sockets, ledgerVars, gatewayVars,
                   cache, now, fetches, tick, delivered>>

\* convertTimeframe(timeframe)
convertTimeframe(timeframe) ==
    CASE timeframe = "1m"  -> "M1"
      [] timeframe = "5m"  -> "M5"
      [] timeframe = "15m" -> "M15"
      [] timeframe = "30m" -> "M30"
      [] timeframe = "1h"  -> "H1"
      [] timeframe = "4h"  -> "H4"
      [] timeframe = "1d"  -> "D"
      [] OTHER -> timeframe

\* getHistoricalData(symbol, timeframe, limit) up to its await: the candle
\* request of fetchOandaHistorical is sent
GetHistoricalData(symbol, timeframe) ==
    /\ service = "cache"
    /\ Len(fetches) < MaxFetches
    /\ fetches' = Append(fetches, [symbol |-> symbol, timeframe |-> timeframe,
                                   granularity |-> convertTimeframe(timeframe),
                                   state |-> "pending", at |-> now])
    /\ last' = [op |-> "getHistoricalData", key |-> symbol, ok |-> TRUE]
    /\ UNCHANGED <<service, authVars, brokerVars, mdVars, sockets, ledgerVars, gatewayVars,
                   cache, now, got, tick, delivered>>

\* the upstream answers fetch i; getHistoricalData returns the candles, or
\* fails when the request failed or no candle came
FetchResponse(i, ok, candles) ==
    /\ service = "cache"
    /\ i \in 1..Len(fetches)
    /\ fetches[i].state = "pending"
    /\ IF ok /\ candles # <<>>
       THEN /\ fetches' = [fetches EXCEPT ![i].state = "answered", ![i].at = now]
            /\ got' = [key |-> CacheKey(fetches[i].symbol, fetches[i].timeframe),
                       hit |-> FALSE, data |-> candles]
            /\ last' = [op |-> "historyResolved", key |-> fetches[i].symbol, ok |-> TRUE]
       ELSE /\ fetches' = [fetches EXCEPT ![i].state = "failed", ![i].at = now]
            /\ last' = [op |-> "historyRejected", key |-> fetches[i].symbol, ok |-> FALSE]
            /\ UNCHANGED got
    /\ UNCHANGED <<service, authVars, brokerVars, mdVars, sockets, ledgerVars, gatewayVars,
                   cache, now, tick, delivered>>

\* time passes
CacheTick ==
    /\ service = "cache"
    /\ now < MaxClock * CacheTickMs
    /\ now' = now + CacheTickMs
    /\ last' = Event
    /\ UNCHANGED <<service, authVars, brokerVars, mdVars, sockets, ledgerVars, gatewayVars,
                   cache, fetches, got, tick, delivered>>

InitCache ==
    /\ service = "cache"
    /\ sessions = <<>>
    /\ pc = <<>>
    /\ connections = EmptyMap
    /\ mdConnections = <<>>
    /\ timers = <<>>
    /\ sockets = EmptyMap
    /\ ledger = NoLedger
    /\ calc = NoCalc
    /\ last = NoEvent
    /\ AuthIdle
    /\ GatewayIdle
    /\ FeedIdle

\* the cache on its own: writes, reads and the clock
NextCache ==
    \/ \E symbol \in CacheSymbols, data \in Snapshots : UpdateCache(symbol, data)
    \/ \E symbol \in CacheSymbols, timeframe \in Timeframes : GetCachedData(symbol, timeframe)
    \/ CacheTick

SpecCache == InitCache /\ [][NextCache]_vars

\* validTimeframes of validateMarketDataRequest
validTimeframes == {"1m", "5m", "15m", "30m", "1h", "4h", "1d", "1w", "1M"}

\* validateMarketDataRequest(params); an absent timeframe is "" and an absent
\* limit is << >>, errors is the set of the fields that got a message
validateMarketDataRequest(params) ==
    LET errors ==
            (IF params.symbol = "" THEN {"symbol"} ELSE {})
            \cup (IF params.timeframe # "" /\ params.timeframe \notin validTimeframes
                  THEN {"timeframe"} ELSE {})
            \cup (IF params.limit # <<>> /\ (params.limit[1] < 1 \/ params.limit[1] > 5000)
                  THEN {"limit"} ELSE {})
    IN  [isValid |-> errors = {}, errors |-> errors]

\* the timeframe tokens a caller may send: the accepted ones, none, and others
RequestTimeframes == validTimeframes \cup {"", "2h", "D"}

\* the market-data requests validated in this part
MarketDataRequests ==
    [symbol : {"", "EUR_USD"}, timeframe : RequestTimeframes,
     limit : {<<>>, <<0>>, <<100>>, <<5001>>}]

\* a request is validated at the boundary
ValidateMarketDataRequest(params) ==
    /\ service = "cache"
    /\ last' = [op |-> "validateMarketDataRequest", key |-> params.timeframe,
                ok |-> validateMarketDataRequest(params).isValid]
    /\ UNCHANGED <<service, authVars, brokerVars, mdVars, sockets, ledgerVars, gatewayVars,
                   feedVars>>

\* requests validated at the boundary and historical data asked for any token
NextTimeframes ==
    \/ \E params \in MarketDataRequests : ValidateMarketDataRequest(params)
    \/ \E symbol \in CacheSymbols, timeframe \in RequestTimeframes :
          GetHistoricalData(symbol, timeframe)

SpecTimeframes == InitCache /\ [][NextTimeframes]_vars

\* the historical-data path: calls, upstream answers and the clock
NextHistory ==
    \/ \E symbol \in CacheSymbols, timeframe \in HistoryTimeframes :
          GetHistoricalData(symbol, timeframe)
    \/ \E i \in 1..MaxFetches, ok \in BOOLEAN, candles \in Candles :
          FetchResponse(i, ok, candles)
    \/ CacheTick

SpecHistory == InitCache /\ [][NextHistory]_vars

----------------------------------------------------------------------------
(* processRealTimeData on its own *)

MaxDigit == 2

\* a venue number as it arrives: a string of decimal digits, here in pips
Numerals == UNION {[1..n -> 0..MaxDigit] : n \in 1..2}

\* parseFloat on a string of digits
RECURSIVE parseFloat(_)
parseFloat(str) ==
    IF str = <<>> THEN 0
    ELSE 10 * parseFloat(SubSeq(str, 1, Len(str) - 1)) + str[Len(str)]

\* the 'price' event data; volume <<>> is a volume that is not sent
TickData ==
    [instrument : {"EUR_USD"}, price : {<<1>>}, bid : Numerals, ask : Numerals,
     volume : {<<>>}]

\* processRealTimeData(data); the fields read from the clock are left out
processRealTimeData(data) ==
    [symbol |-> data.instrument,
     price  |-> parseFloat(data.price),
     bid    |-> parseFloat(data.bid),
     ask    |-> parseFloat(data.ask),
     spread |-> parseFloat(data.ask) - parseFloat(data.bid),
     volume |-> parseFloat(IF data.volume = <<>> THEN <<0>> ELSE data.volume)]

InitTick ==
    /\ service = "tick"
    /\ sessions = <<>>
    /\ pc = <<>>
    /\ connections = EmptyMap
    /\ mdConnections = <<>>
    /\ timers = <<>>
    /\ sockets = EmptyMap
    /\ ledger = NoLedger
    /\ calc = NoCalc
    /\ last = NoEvent
    /\ AuthIdle
    /\ GatewayIdle
    /\ cache = EmptyMap
    /\ now = 0
    /\ fetches = <<>>
    /\ got = NoRead
    /\ tick \in [data : TickData, result : {[spread |-> 0]}, done : {FALSE}]
    /\ delivered = <<>>

ProcessRealTimeData ==
    /\ service = "tick"
    /\ ~tick.done
    /\ tick' = [tick EXCEPT !.result = processRealTimeData(tick.data), !.done = TRUE]
    /\ last' = [op |-> "processRealTimeData", key |-> tick.data.instrument, ok |-> TRUE]
    /\ UNCHANGED <<service, authVars, brokerVars, mdVars, sockets, ledgerVars, gatewayVars,
                   cache, now, fetches, got, delivered>>

NextTick == ProcessRealTimeData

SpecTick == InitTick /\ [][NextTick]_vars

----------------------------------------------------------------------------
(* MarketDataService: the 'price' handler of a stream *)

MaxDelivered == 2

\* the price events the venue sends in this part
FeedTicks ==
    [instrument : {"EUR_USD"}, price : {<<1>>, <<2>>}, bid : {<<1>>}, ask : {<<2>>},
     volume : {<<>>}]

\* socket.on('price'): processRealTimeData, then the subscriber callback, then
\* updateCache. callbackOk is whether the callback returns. There is no try
\* around the call: when the callback throws, updateCache is skipped and the
\* error leaves the handler into the library's event dispatch, uncaught; no
\* 'uncaughtException' handler is installed, so the process ends, and with
\* it every socket, every timer, the registry and the cache; nothing runs in
\* a process that has ended
MdPrice(k, data, callbackOk) ==
    /\ MdSocket(k)
    /\ sockets[k].state = "connected"
    /\ sockets[k].subs # <<>>
    /\ Len(delivered) < MaxDelivered
    /\ IF callbackOk
       THEN /\ delivered' = Append(delivered, processRealTimeData(data))
            /\ cache' = updateCache(cache, sockets[k].symbol,
                                    processRealTimeData(data), now)
            /\ UNCHANGED <<service, mdVars, sockets>>
       ELSE /\ service' = "exited"
            /\ mdConnections' = <<>>
            /\ timers' = <<>>
            /\ sockets' = EmptyMap
            /\ cache' = EmptyMap
            /\ UNCHANGED delivered
    /\ last' = [op |-> "price", key |-> sockets[k].symbol, ok |-> callbackOk]
    /\ UNCHANGED <<authVars, brokerVars, ledgerVars, gatewayVars, now, fetches, got, tick>>

NextFeed ==
    \/ \E symbol \in Symbols : ConnectOnce(symbol)
    \/ \E k \in SocketIds : MdConnect(k)
    \/ \E k \in SocketIds, data \in FeedTicks, callbackOk \in BOOLEAN :
          MdPrice(k, data, callbackOk)

SpecFeed == InitMd /\ [][NextFeed]_vars

----------------------------------------------------------------------------
(* The auth routes: POST /api/auth/register and POST /api/auth/login against
   the users table. A request runs from one await to the next in one step
   (a query, bcrypt.hash and bcrypt.compare each return to the event loop);
   requests of different clients interleave at their awaits. A query of the
   Supabase client resolves to {data, error} and does not throw, so a failed
   query is an outcome the route sees only if it reads error *)

MaxPosts == 2

\* String.prototype.toLowerCase on the strings of this part
toLowerCase(s) == IF s = "A@x.io" THEN "a@x.io" ELSE s

\* String.prototype.trim and .length on the strings of this part
trim(s) == IF s = " A " THEN "A" ELSE s
length(s) ==
    CASE s = "secret1" -> 7
      [] s = "hunter22" -> 8
      [] s = "short"   -> 5
      [] s = "Ann"     -> 3
      [] s = "Lee"     -> 3
      [] s = "A"       -> 1
      [] OTHER         -> 0

\* validateEmail: /^[^\s@]+@[^\s@]+\.[^\s@]+$/ on the strings of this part
validateEmail(email) == email \in {"a@x.io", "A@x.io", "b@x.io"}

\* validatePassword(password)
validatePassword(password) == password # "" /\ length(password) >= 6

\* validateName(name)
validateName(name) == name # "" /\ length(trim(name)) >= 2 /\ length(trim(name)) <= 50

\* bcrypt.hash(password, saltRounds) and bcrypt.compare(password, hash)
bcryptHash(password) == <<"bcrypt", password>>
bcryptCompare(password, hash) == hash = bcryptHash(password)

\* the row a registration made earlier and that has been verified since
VerifiedUser ==
    [id |-> <<"auth", 0>>, email |-> "a@x.io", password_hash |-> bcryptHash("secret1"),
     is_verified |-> TRUE, login_count |-> 0]

\* .eq('email', email).single(): the row, if exactly one matches
SingleByEmail(rows, email) ==
    LET found == {row \in rows : row.email = email}
    IN  IF Cardinality(found) = 1 THEN <<CHOOSE row \in found : TRUE>> ELSE <<>>

\* .update(values).eq('id', id) and .delete().eq('id', id)
UpdateById(rows, id, values) ==
    {IF row.id = id THEN Merge(row, values) ELSE row : row \in rows}
DeleteById(rows, id) == {row \in rows : row.id # id}

\* the bodies posted to the register route
RegisterBodies ==
    {[email |-> "a@x.io", password |-> "secret1", firstName |-> "Ann", lastName |-> "Lee"],
     [email |-> "A@x.io", password |-> "secret1", firstName |-> "Ann", lastName |-> "Lee"],
     [email |-> "nobody", password |-> "secret1", firstName |-> "Ann", lastName |-> "Lee"],
     [email |-> "a@x.io", password |-> "short",   firstName |-> "Ann", lastName |-> "Lee"],
     [email |-> "a@x.io", password |-> "secret1", firstName |-> " A ", lastName |-> "Lee"],
     [email |-> "a@x.io", password |-> "secret1", firstName |-> "Ann", lastName |-> ""]}

\* the route answers request i
Answer(ps, i, status) == [ps EXCEPT ![i].pc = "done", ![i].status = status]

Answered(route, body, status) ==
    [op |-> route, key |-> body.email, ok |-> status \in {200, 201}]

\* register POST up to its first await: the body is validated
RegisterPost(body) ==
    /\ service = "register"
    /\ Len(posts) < MaxPosts
    /\ LET valid == /\ validateEmail(body.email)
                    /\ validatePassword(body.password)
                    /\ validateName(body.firstName)
                    /\ validateName(body.lastName)
       IN  /\ posts' = Append(posts, [route |-> "register", body |-> body,
                                      pc |-> IF valid THEN "lookup" ELSE "done",
                                      status |-> IF valid THEN 0 ELSE 400,
                                      user |-> <<>>])
           /\ last' = IF valid THEN Event ELSE Answered("register", body, 400)
    /\ UNCHANGED <<service, brokerVars, mdVars, sockets, ledgerVars, otherVars, users>>

\* the existence check resolves: 409, or bcrypt.hash is started
RegisterLookup(i, ok) ==
    /\ service = "register"
    /\ i \in 1..Len(posts)
    /\ posts[i].route = "register" /\ posts[i].pc = "lookup"
    /\ LET existingUser ==
               IF ok THEN SingleByEmail(users, toLowerCase(posts[i].body.email)) ELSE <<>>
       IN  IF existingUser # <<>>
           THEN /\ posts' = Answer(posts, i, 409)
                /\ last' = Answered("register", posts[i].body, 409)
           ELSE /\ posts' = [posts EXCEPT ![i].pc = "hash"]
                /\ last' = Event
    /\ UNCHANGED <<service, brokerVars, mdVars, sockets, ledgerVars, otherVars, users>>

\* bcrypt.hash resolves: the token is generated and the insert is sent
RegisterHash(i) ==
    /\ service = "register"
    /\ i \in 1..Len(posts)
    /\ posts[i].route = "register" /\ posts[i].pc = "hash"
    /\ posts' = [posts EXCEPT ![i].pc = "insert"]
    /\ last' = Event
    /\ UNCHANGED <<service, brokerVars, mdVars, sockets, ledgerVars, otherVars, users>>

\* the insert of the user row resolves
RegisterInsert(i, ok) ==
    /\ service = "register"
    /\ i \in 1..Len(posts)
    /\ posts[i].route = "register" /\ posts[i].pc = "insert"
    /\ LET newUser == [id |-> <<"users", i>>,
                       email |-> toLowerCase(posts[i].body.email),
                       password_hash |-> bcryptHash(posts[i].body.password),
                       is_verified |-> FALSE, login_count |-> 0]
       IN  IF ok
           THEN /\ users' = users \cup {newUser}
                /\ posts' = [posts EXCEPT ![i].pc = "auth", ![i].user = <<newUser>>]
                /\ last' = Event
           ELSE /\ posts' = Answer(posts, i, 500)
                /\ last' = Answered("register", posts[i].body, 500)
                /\ UNCHANGED users
    /\ UNCHANGED <<service, brokerVars, mdVars, sockets, ledgerVars, otherVars>>

\* auth.admin.createUser resolves
RegisterCreateAuth(i, ok) ==
    /\ service = "register"
    /\ i \in 1..Len(posts)
    /\ posts[i].route = "register" /\ posts[i].pc = "auth"
    /\ posts' = [posts EXCEPT ![i].pc = IF ok THEN "link" ELSE "cleanup"]
    /\ last' = Event
    /\ UNCHANGED <<service, brokerVars, mdVars, sockets, ledgerVars, otherVars, users>>

\* the cleanup delete resolves; its result is not read
RegisterCleanup(i, ok) ==
    /\ service = "register"
    /\ i \in 1..Len(posts)
    /\ posts[i].route = "register" /\ posts[i].pc = "cleanup"
    /\ users' = IF ok THEN DeleteById(users, posts[i].user[1].id) ELSE users
    /\ posts' = Answer(posts, i, 500)
    /\ last' = Answered("register", posts[i].body, 500)
    /\ UNCHANGED <<service, brokerVars, mdVars, sockets, ledgerVars, otherVars>>

\* the update of the row's id to the auth id resolves (result not read)
\* and the insert into system_logs is sent
RegisterLink(i, ok) ==
    /\ service = "register"
    /\ i \in 1..Len(posts)
    /\ posts[i].route = "register" /\ posts[i].pc = "link"
    /\ users' = IF ok THEN UpdateById(users, posts[i].user[1].id, [id |-> <<"auth", i>>])
                      ELSE users
    /\ posts' = [posts EXCEPT ![i].pc = "log"]
    /\ last' = Event
    /\ UNCHANGED <<service, brokerVars, mdVars, sockets, ledgerVars, otherVars>>

\* the insert into system_logs resolves (result not read): the route
\* answers 201
RegisterLog(i) ==
    /\ service = "register"
    /\ i \in 1..Len(posts)
    /\ posts[i].route = "register" /\ posts[i].pc = "log"
    /\ posts' = Answer(posts, i, 201)
    /\ last' = Answered("register", posts[i].body, 201)
    /\ UNCHANGED <<service, brokerVars, mdVars, sockets, ledgerVars, otherVars, users>>

InitRegister ==
    /\ service = "register"
    /\ sessions = <<>>
    /\ pc = <<>>
    /\ connections = EmptyMap
    /\ mdConnections = <<>>
    /\ timers = <<>>
    /\ sockets = EmptyMap
    /\ ledger = NoLedger
    /\ calc = NoCalc
    /\ users = {}
    /\ posts = <<>>
    /\ last = NoEvent
    /\ GatewayIdle
    /\ FeedIdle

NextRegister ==
    \/ \E body \in RegisterBodies : RegisterPost(body)
    \/ \E i \in 1..MaxPosts, ok \in BOOLEAN : RegisterLookup(i, ok)
    \/ \E i \in 1..MaxPosts : RegisterHash(i)
    \/ \E i \in 1..MaxPosts, ok \in BOOLEAN : RegisterInsert(i, ok)
    \/ \E i \in 1..MaxPosts, ok \in BOOLEAN : RegisterCreateAuth(i, ok)
    \/ \E i \in 1..MaxPosts, ok \in BOOLEAN : RegisterCleanup(i, ok)
    \/ \E i \in 1..MaxPosts, ok \in BOOLEAN : RegisterLink(i, ok)
    \/ \E i \in 1..MaxPosts : RegisterLog(i)

\* a row whose email has not been verified
UnverifiedUser ==
    [id |-> <<"auth", 9>>, email |-> "b@x.io", password_hash |-> bcryptHash("secret1"),
     is_verified |-> FALSE, login_count |-> 0]

\* the bodies posted to the login route
LoginBodies ==
    {[email |-> "a@x.io", password |-> "secret1"],
     [email |-> "A@x.io", password |-> "secret1"],
     [email |-> "a@x.io", password |-> "hunter22"],
     [email |-> "b@x.io", password |-> "secret1"],
     [email |-> "nobody", password |-> "secret1"],
     [email |-> "a@x.io", password |-> "short"]}

\* login POST up to its first await: the body is validated
LoginPost(body) ==
    /\ service = "login"
    /\ Len(posts) < MaxPosts
    /\ LET valid == validateEmail(body.email) /\ validatePassword(body.password)
       IN  /\ posts' = Append(posts, [route |-> "login", body |-> body,
                                      pc |-> IF valid THEN "find" ELSE "done",
                                      status |-> IF valid THEN 0 ELSE 400,
                                      user |-> <<>>, updateError |-> FALSE])
           /\ last' = IF valid THEN Event ELSE Answered("login", body, 400)
    /\ UNCHANGED <<service, brokerVars, mdVars, sockets, ledgerVars, otherVars, users>>

\* the user query resolves: 401, or bcrypt.compare is started
LoginFind(i, ok) ==
    /\ service = "login"
    /\ i \in 1..Len(posts)
    /\ posts[i].route = "login" /\ posts[i].pc = "find"
    /\ LET user == IF ok THEN SingleByEmail(users, toLowerCase(posts[i].body.email))
                         ELSE <<>>
       IN  IF user = <<>>
           THEN /\ posts' = Answer(posts, i, 401)
                /\ last' = Answered("login", posts[i].body, 401)
           ELSE /\ posts' = [posts EXCEPT ![i].pc = "compare", ![i].user = user]
                /\ last' = Event
    /\ UNCHANGED <<service, brokerVars, mdVars, sockets, ledgerVars, otherVars, users>>

\* bcrypt.compare resolves: 401 for a wrong password or an unverified
\* account, else the update of the login stats is sent
LoginCompare(i) ==
    /\ service = "login"
    /\ i \in 1..Len(posts)
    /\ posts[i].route = "login" /\ posts[i].pc = "compare"
    /\ LET user == posts[i].user[1]
       IN  IF \/ ~bcryptCompare(posts[i].body.password, user.password_hash)
              \/ ~user.is_verified
           THEN /\ posts' = Answer(posts, i, 401)
                /\ last' = Answered("login", posts[i].body, 401)
           ELSE /\ posts' = [posts EXCEPT ![i].pc = "update"]
                /\ last' = Event
    /\ UNCHANGED <<service, brokerVars, mdVars, sockets, ledgerVars, otherVars, users>>

\* the update of the login stats resolves: the counter is written as the
\* value read by the user query plus one; a failure is logged only
LoginUpdate(i, ok) ==
    /\ service = "login"
    /\ i \in 1..Len(posts)
    /\ posts[i].route = "login" /\ posts[i].pc = "update"
    /\ users' = IF ok
                THEN UpdateById(users, posts[i].user[1].id,
                                [login_count |-> posts[i].user[1].login_count + 1])
                ELSE users
    /\ posts' = [posts EXCEPT ![i].pc = "link", ![i].updateError = ~ok]
    /\ last' = Event
    /\ UNCHANGED <<service, brokerVars, mdVars, sockets, ledgerVars, otherVars>>

\* auth.admin.generateLink resolves: 200 with the user data, or 500
LoginLink(i, ok) ==
    /\ service = "login"
    /\ i \in 1..Len(posts)
    /\ posts[i].route = "login" /\ posts[i].pc = "link"
    /\ posts' = Answer(posts, i, IF ok THEN 200 ELSE 500)
    /\ last' = Answered("login", posts[i].body, IF ok THEN 200 ELSE 500)
    /\ UNCHANGED <<service, brokerVars, mdVars, sockets, ledgerVars, otherVars, users>>

InitLogin ==
    /\ service = "login"
    /\ sessions = <<>>
    /\ pc = <<>>
    /\ connections = EmptyMap
    /\ mdConnections = <<>>
    /\ timers = <<>>
    /\ sockets = EmptyMap
    /\ ledger = NoLedger
    /\ calc = NoCalc
    /\ users = {VerifiedUser, UnverifiedUser}
    /\ posts = <<>>
    /\ last = NoEvent
    /\ GatewayIdle
    /\ FeedIdle

NextLogin ==
    \/ \E body \in LoginBodies : LoginPost(body)
    \/ \E i \in 1..MaxPosts, ok \in BOOLEAN : LoginFind(i, ok)
    \/ \E i \in 1..MaxPosts : LoginCompare(i)
    \/ \E i \in 1..MaxPosts, ok \in BOOLEAN : LoginUpdate(i, ok)
    \/ \E i \in 1..MaxPosts, ok \in BOOLEAN : LoginLink(i, ok)

SpecLogin == InitLogin /\ [][NextLogin]_vars

SpecRegister == InitRegister /\ [][NextRegister]_vars

----------------------------------------------------------------------------
(* Claims *)

\* the step ends a connectToBroker call of session s in failure
ConnectFails(s) ==
    /\ s \in 1..Len(sessions)
    /\ pc[s] # "failed"
    /\ pc'[s] = "failed"

\* C1: when authenticate, getAccountInfo or connectToStream fails,
\* connectToBroker fails and the registry is as it was: the step that fails
\* the call changes no entry, and no session whose call has not completed is
\* ever registered.
C1_FailedConnectRegistersNothing ==
    /\ [](\A b \in DOMAIN connections : pc[connections[b]] = "done")
    /\ [][\A s \in 1..MaxSessions :
             ConnectFails(s) => (connections' = connections /\ ~last'.ok)]_vars

\* C1 witness: a call failed at the stream step, after authentication and
\* account detail succeeded, while an earlier session stays registered
C1_Witness ==
    \E s \in 1..Len(sessions) :
        /\ pc[s] = "failed"
        /\ sessions[s].connected
        /\ sessions[s].accountInfo
        /\ "oanda" \in DOMAIN connections
        /\ connections["oanda"] # s

\* the step is a call of BrokerIntegration.connectToBroker / of
\* MarketDataService.connectToStream for an id its registry holds
ReconnectsBroker ==
    /\ service = "broker"
    /\ last'.op = "connectToBroker"
    /\ last'.key \in DOMAIN connections
    /\ sockets[sessions[connections[last'.key]].stream].state = "connected"

ReconnectsSymbol ==
    /\ service = "md"
    /\ last'.op = "connectToStream"
    /\ last'.key \in MdKeys(mdConnections)
    /\ sockets[MdGet(mdConnections, last'.key)].state = "connected"

\* C3: connect for an id that is already connected is a no-op returning the
\* existing session: no new connection object or authentication request, no
\* new socket, and the registry entry is the one from before the call.
C3_ConnectOfConnectedIdIsNoOp ==
    [][(ReconnectsBroker \/ ReconnectsSymbol)
          => UNCHANGED <<sessions, pc, connections, mdConnections, sockets>>]_vars

\* the step is a disconnect(id) of either service
DisconnectStep == last'.op = "disconnect"

Registered(id) ==
    IF service = "broker" THEN id \in DOMAIN connections
                          ELSE id \in MdKeys(mdConnections)

RegisteredNext(id) ==
    IF service = "broker" THEN id \in DOMAIN connections'
                          ELSE id \in MdKeys(mdConnections')

\* the socket the registry holds for id
StreamOf(id) ==
    IF service = "broker" THEN sessions[connections[id]].stream
                          ELSE MdGet(mdConnections, id)

ClosedNext(k) == k \notin DOMAIN sockets' \/ sockets'[k].state = "closed"

\* C7: disconnect(id) is idempotent. For a registered id, a disconnect that
\* returns has closed the stream and removed the entry; for an id that is
\* not registered (never connected, or already disconnected) it returns
\* without failing, closes no stream, arms nothing and leaves the registry
\* as it was.
C7_DisconnectIdempotent ==
    [][DisconnectStep =>
          IF Registered(last'.key)
          THEN last'.ok => /\ ~RegisteredNext(last'.key)
                           /\ ClosedNext(StreamOf(last'.key))
          ELSE /\ last'.ok
               /\ UNCHANGED <<connections, mdConnections, sockets, timers>>]_vars

\* C7 witness: a session was disconnected (its stream is closed and its
\* entry is gone), and then a disconnect of an id that never was in the
\* registry has returned
C7_Witness ==
    /\ last.op = "disconnect"
    /\ last.ok
    /\ last.key = "fxcm"
    /\ connections = EmptyMap
    /\ \E s \in 1..Len(sessions) :
          /\ pc[s] = "done"
          /\ sockets[sessions[s].stream].state = "closed"

\* C8: disconnectAll does not stop partway: a failing close is not
\* propagated, every registered connection is closed and the registry is
\* empty when it returns.
C8_DisconnectAllCompletes ==
    [][last'.op = "disconnectAll" =>
          /\ last'.ok
          /\ connections' = EmptyMap
          /\ mdConnections' = <<>>
          /\ \A i \in 1..Len(mdConnections) : ClosedNext(mdConnections[i].sock)
          /\ \A b \in DOMAIN connections : ClosedNext(sessions[connections[b]].stream)]_vars

\* C2: after an explicit disconnect(symbol) or disconnectAll() no background
\* reconnect survives: a symbol that is not in the registry enters it again
\* only by a caller's connectToStream.
C2_NoReconnectAfterDisconnect ==
    [][\A symbol \in Symbols :
          (symbol \notin MdKeys(mdConnections) /\ symbol \in MdKeys(mdConnections'))
              => last'.op = "connectToStream"]_vars

\* the step runs the head timer
TimerRuns == timers # <<>> /\ timers' = Tail(timers)

\* C4: a stream dropped by the network leads to a new connect attempt, made
\* by the timer once its fixed 5000 ms have passed; every connected socket
\* has emitted the subscribe request for its symbol; the drop itself reaches
\* no caller as an error.
C4_DropLeadsToReconnect ==
    /\ \A symbol \in Symbols :
          (last.op = "streamDrop" /\ last.key = symbol)
              ~> (last.op = "reconnect" /\ last.key = symbol)
    /\ [][TimerRuns => Head(timers).waited >= 5000]_vars
    /\ [](\A k \in DOMAIN sockets :
             sockets[k].state = "connected"
                 => sockets[k].subs = <<[symbol |-> sockets[k].symbol]>>)
    /\ [](last.op = "streamDrop" => last.ok)

\* C4 witness: the timer armed by a drop has made its connect attempt, whose
\* socket has connected and subscribed for the symbol
C4_Witness ==
    /\ timers = <<>>
    /\ \E symbol \in Symbols :
          /\ symbol \in MdKeys(mdConnections)
          /\ MdGet(mdConnections, symbol) = 2
          /\ sockets[2].state = "connected"
          /\ sockets[2].subs = <<[symbol |-> symbol]>>
          /\ 1 \in DOMAIN sockets
          /\ sockets[1].symbol = symbol

OpenOf(symbol) ==
    {k \in DOMAIN sockets : sockets[k].symbol = symbol /\ sockets[k].state # "closed"}

RECURSIVE SumOver(_, _)
SumOver(f, ks) ==
    IF ks = {} THEN 0
    ELSE LET k == CHOOSE x \in ks : TRUE IN f[k] + SumOver(f, ks \ {k})

\* attempts made, attempts failed and subscribe requests outstanding for a
\* symbol in its current (re)connection
AttemptsOf(symbol) ==
    SumOver([k \in DOMAIN sockets |-> sockets[k].attempts], OpenOf(symbol))
FailuresOf(symbol) ==
    SumOver([k \in DOMAIN sockets |-> sockets[k].attempts - 1], OpenOf(symbol))
SubscriptionsOf(symbol) ==
    SumOver([k \in DOMAIN sockets |-> Len(sockets[k].subs)], OpenOf(symbol))

\* C5: once a symbol's stream has connected after N failed attempts, exactly
\* N+1 attempts have been made for it and exactly one subscribe request is
\* outstanding (one socket, one subscription).
C5_OneSubscriptionAfterRetries ==
    \A symbol \in Symbols :
        (\E k \in OpenOf(symbol) : sockets[k].state = "connected")
            => /\ AttemptsOf(symbol) = FailuresOf(symbol) + 1
               /\ SubscriptionsOf(symbol) = 1

C11_FillCreatesPosition ==
    [][\A data \in LedgerTransactions :
          (/\ data.type = "ORDER_FILL"
           /\ data.positionId \notin DOMAIN ledger.positions
           /\ TransactionUpdate(data))
              => /\ data.positionId \in DOMAIN ledger'.positions
                 /\ ledger'.positions[data.positionId].units = data.units
                 /\ ledger'.positions[data.positionId].averagePrice = data.averagePrice]_vars

\* C13: after a successful placeOrder the order is in the session's working
\* order set (connection.orders) under the id the venue returned.
C13_PlacedOrderIsRecorded ==
    \A c \in 1..Len(calls) :
        (calls[c].op = "placeOrder" /\ calls[c].state = "resolved")
            => calls[c].orderId \in DOMAIN ledger.orders

\* the requests sent for call c
RequestsOf(c) == {i \in 1..Len(requests) : requests[i].call = c}

\* C15: each placeOrder call sends exactly one order-placement request; when
\* that request fails the call fails to its caller, and no step other than
\* a new call sends a request (no retry).
C15_OneRequestPerPlaceOrder ==
    /\ [](\A c \in 1..Len(calls) :
             calls[c].op = "placeOrder"
                 => /\ Cardinality(RequestsOf(c)) = 1
                    /\ \A i \in RequestsOf(c) :
                          /\ requests[i].op = "placeOrder"
                          /\ requests[i].state \in {"failed", "timedOut"}
                                => calls[c].state = "rejected")
    /\ [][Len(requests') > Len(requests) => Len(calls') > Len(calls)]_vars

\* C15 witness: the request of a placeOrder call has failed, the call was
\* rejected, and nothing else was sent
C15_Witness ==
    /\ Len(calls) = 1
    /\ calls[1].op = "placeOrder"
    /\ calls[1].state = "rejected"
    /\ Len(requests) = 1
    /\ requests[1].state = "failed"
    /\ last.op = "callRejected"

\* C16: every gateway REST call ends, with a result or with a failure, even
\* when the venue never answers.
C16_RestCallsComplete ==
    \A c \in 1..MaxCalls :
        (Len(calls) >= c /\ calls[c].state = "awaiting")
            ~> (Len(calls) >= c /\ calls[c].state # "awaiting")

\* C17: getCachedData(symbol, timeframe) returns the stored snapshot exactly
\* when an entry exists for the key and now - cachedAt < 60000 ms, and a miss
\* (null) otherwise; updateCache stores the snapshot it is handed under the
\* key with the time of the call, so that a read that follows at once
\* returns that snapshot.
C17_CacheReadWithinTtl ==
    /\ [][\A symbol \in CacheSymbols, timeframe \in Timeframes :
             GetCachedData(symbol, timeframe) =>
                 LET key == <<symbol, "_", timeframe>>
                     fresh == key \in DOMAIN cache /\ now - cache[key].timestamp < 60000
                 IN  /\ got'.hit <=> fresh
                     /\ got'.hit => got'.data = <<cache[key].data>>
                     /\ ~got'.hit => got'.data = <<>>]_vars
    /\ [][\A symbol \in CacheSymbols, data \in Snapshots :
             UpdateCache(symbol, data) =>
                 LET key == <<symbol, "_", IF data.timeframe = "" THEN "realtime"
                                                                   ELSE data.timeframe>>
                 IN  /\ key \in DOMAIN cache'
                     /\ cache'[key] = [data |-> data, timestamp |-> now]
                     /\ getCachedData(cache', symbol, key[3], now).data = <<data>>]_vars

\* C17 witness: a read found an entry aged exactly 60000 ms and returned a miss
C17_Witness ==
    /\ last.op = "getCachedData"
    /\ ~got.hit
    /\ got.key \in DOMAIN cache
    /\ now - cache[got.key].timestamp = 60000

\* C18: getHistoricalData populates the cache before it returns candles, and
\* a call for a symbol and timeframe whose candles were fetched less than
\* 60000 ms ago sends no upstream request.
C18_HistoryUsesCache ==
    /\ [][\A i \in 1..Len(fetches) :
             (fetches[i].state = "pending" /\ fetches'[i].state = "answered")
                 => <<fetches[i].symbol, "_", fetches[i].timeframe>> \in DOMAIN cache']_vars
    /\ [][\A i \in 1..Len(fetches) :
             (/\ Len(fetches') > Len(fetches)
              /\ fetches[i].state = "answered"
              /\ now - fetches[i].at < 60000)
                 => ~(/\ fetches'[Len(fetches')].symbol = fetches[i].symbol
                      /\ fetches'[Len(fetches')].timeframe = fetches[i].timeframe)]_vars

\* C20: every tick processRealTimeData produces has spread >= 0, an inverted
\* quote (ask < bid) included.
C20_SpreadNonNegative ==
    tick.done => tick.result.spread >= 0

\* C19: a subscriber callback that throws while a price tick is delivered is
\* contained: the cache is still updated with that tick, the stream stays
\* open and the service goes on delivering.
C19_CallbackFailureContained ==
    [][\A k \in SocketIds, data \in FeedTicks :
          MdPrice(k, data, FALSE)
              => /\ <<sockets[k].symbol, "_", "realtime">> \in DOMAIN cache'
                 /\ cache'[<<sockets[k].symbol, "_", "realtime">>].data
                        = processRealTimeData(data)
                 /\ k \in DOMAIN sockets'
                 /\ sockets'[k].state = "connected"
                 /\ service' = "md"]_vars

\* C14 as claimed: the payload placeOandaOrder builds is the reference
\* construction: units is +units for a buy and -units for a sell; price is
\* present exactly when the type is LIMIT and a price was supplied;
\* stopLossOnFill and takeProfitOnFill are present exactly when a stopLoss /
\* takeProfit was supplied, and each carries the value supplied.
C14_PayloadIsReference ==
    order.done =>
        LET params == order.params
            payload == order.payload
        IN  /\ params.side = "BUY" => payload.units = params.units
            /\ params.side = "SELL" => payload.units = 0 - params.units
            /\ payload.instrument = params.symbol
            /\ ("price" \in DOMAIN payload) <=> (params.type = "LIMIT" /\ params.price # <<>>)
            /\ "price" \in DOMAIN payload => payload.price = params.price[1]
            /\ ("stopLossOnFill" \in DOMAIN payload) <=> (params.stopLoss # <<>>)
            /\ "stopLossOnFill" \in DOMAIN payload
                  => payload.stopLossOnFill = [price |-> params.stopLoss[1]]
            /\ ("takeProfitOnFill" \in DOMAIN payload) <=> (params.takeProfit # <<>>)
            /\ "takeProfitOnFill" \in DOMAIN payload
                  => payload.takeProfitOnFill = [price |-> params.takeProfit[1]]

\* C14 as amended: units is +units when side is the string BUY and -units
\* otherwise, so for SELL; price is present exactly when the type is LIMIT
\* and a non-zero price was supplied; stopLossOnFill and takeProfitOnFill are
\* present exactly when a non-zero stopLoss / takeProfit was supplied, and
\* each carries the value supplied.
C14_PayloadIsReferenceNonZero ==
    order.done =>
        LET params == order.params
            payload == order.payload
            supplied(x) == x # <<>> /\ x # <<0>>
        IN  /\ params.side = "BUY" => payload.units = params.units
            /\ params.side # "BUY" => payload.units = 0 - params.units
            /\ payload.instrument = params.symbol
            /\ payload.type = (IF params.type = "" THEN "MARKET" ELSE params.type)
            /\ ("price" \in DOMAIN payload)
                  <=> (params.type = "LIMIT" /\ supplied(params.price))
            /\ "price" \in DOMAIN payload => payload.price = params.price[1]
            /\ ("stopLossOnFill" \in DOMAIN payload) <=> supplied(params.stopLoss)
            /\ "stopLossOnFill" \in DOMAIN payload
                  => payload.stopLossOnFill = [price |-> params.stopLoss[1]]
            /\ ("takeProfitOnFill" \in DOMAIN payload) <=> supplied(params.takeProfit)
            /\ "takeProfitOnFill" \in DOMAIN payload
                  => payload.takeProfitOnFill = [price |-> params.takeProfit[1]]

\* C14 witness: a limit sell supplied with a price, a stop loss of 0 and no
\* take profit has been built: the price is there, the stop loss is left out
C14_Witness ==
    /\ order.done
    /\ order.params.side = "SELL"
    /\ order.params.type = "LIMIT"
    /\ order.params.price = <<1>>
    /\ order.params.stopLoss = <<0>>
    /\ order.params.takeProfit = <<>>
    /\ order.payload.units < 0
    /\ "price" \in DOMAIN order.payload
    /\ "stopLossOnFill" \notin DOMAIN order.payload

\* C10: calculateUnrealizedPnL returns (currentPrice - averagePrice) * units
\* for a long position and (averagePrice - currentPrice) * units for a short
\* one, 0 when units is 0, and leaves its arguments as they were.
C10_PnLFormula ==
    /\ [](calc.done =>
            /\ calc.position.side = "BUY"
                  => calc.result = (calc.currentPrice - calc.position.averagePrice)
                                       * calc.position.units
            /\ calc.position.side = "SELL"
                  => calc.result = (calc.position.averagePrice - calc.currentPrice)
                                       * calc.position.units
            /\ calc.position.units = 0 => calc.result = 0)
    /\ [][calc'.position = calc.position /\ calc'.currentPrice = calc.currentPrice]_vars

\* C10 witness: the function has returned a loss for a short position
C10_Witness ==
    /\ calc.done
    /\ calc.position.side = "SELL"
    /\ calc.position.units = 2
    /\ calc.currentPrice > calc.position.averagePrice
    /\ calc.result < 0

\* the step resolves the connectToBroker call of session s
ConnectResolves(s) ==
    /\ s \in 1..Len(sessions)
    /\ pc[s] # "done"
    /\ pc'[s] = "done"

\* C21: when connectToBroker succeeds the registry maps the brokerId to the
\* session the call returns, and every session in the registry is fully
\* established: connected, with its account set and with its stream attached.
C21_RegisteredSessionsEstablished ==
    /\ [](\A b \in DOMAIN connections :
             LET connection == sessions[connections[b]]
             IN  /\ connection.brokerId = b
                 /\ connection.connected
                 /\ connection.account # ""
                 /\ connection.accountInfo
                 /\ connection.stream \in DOMAIN sockets)
    /\ [][\A s \in 1..MaxSessions :
             ConnectResolves(s)
                 => /\ last'.ok
                    /\ sessions[s].brokerId \in DOMAIN connections'
                    /\ connections'[sessions[s].brokerId] = s]_vars

\* C21 witness: a second connectToBroker has resolved and the registry maps
\* the brokerId to its session
C21_Witness ==
    /\ last.op = "connectResolved"
    /\ "oanda" \in DOMAIN connections
    /\ connections["oanda"] = 2
    /\ sessions[2].connected
    /\ sessions[2].stream \in DOMAIN sockets

\* the endpoint pairs of the venue: practice (demo) and trade (live)
DemoPair == <<"https://api-fxpractice.oanda.com", "https://stream-fxpractice.oanda.com">>
LivePair == <<"https://api-fxtrade.oanda.com", "https://stream-fxtrade.oanda.com">>

\* C22: a session connected in demo mode has the demo base/stream pair, a
\* session connected in live mode has the live pair, and the two pairs
\* share no endpoint; REST requests go to connection.baseUrl and the stream
\* to connection.streamUrl, which no step changes.
C22_EndpointsFollowMode ==
    /\ [](\A s \in 1..Len(sessions) :
             <<sessions[s].baseUrl, sessions[s].streamUrl>>
                 = IF sessions[s].isDemo THEN DemoPair ELSE LivePair)
    /\ [][\A s \in 1..Len(sessions) :
             /\ sessions'[s].baseUrl = sessions[s].baseUrl
             /\ sessions'[s].streamUrl = sessions[s].streamUrl
             /\ sessions'[s].isDemo = sessions[s].isDemo]_vars
    /\ [](\A i \in 1..2, j \in 1..2 : DemoPair[i] # LivePair[j])

\* C22 witness: a demo session and a live session have both opened their
\* streams
C22_Witness ==
    \E s \in 1..Len(sessions), t \in 1..Len(sessions) :
        /\ sessions[s].isDemo
        /\ ~sessions[t].isDemo
        /\ pc[s] = "done"
        /\ pc[t] = "done"

\* C23: connectToBroker with a brokerId other than the supported venue fails
\* at once: no connection object is built and no request sent, no stream is
\* opened, and the registry is as it was.
C23_UnsupportedVenueFails ==
    [][(last'.op = "connectToBroker" /\ last'.key # "oanda")
          => /\ ~last'.ok
             /\ UNCHANGED <<sessions, pc, connections, sockets>>]_vars

\* C23 witness: a connect for an unsupported id has failed while a session of
\* the supported venue is registered
C23_Witness ==
    /\ last = [op |-> "connectToBroker", key |-> "fxcm", ok |-> FALSE]
    /\ "oanda" \in DOMAIN connections
    /\ "fxcm" \notin DOMAIN connections

\* C24: getPositions is a read-through to the venue: the request it sends
\* carries nothing of the session's positions or orders, and neither the call
\* nor its outcome (the venue's answer, a failure, a rejection) changes the
\* session's positions map, its orders map or the registry.
C24_GetPositionsReadsThrough ==
    [][/\ GetPositions
            => /\ UNCHANGED <<ledger, connections, sessions>>
               /\ requests'[Len(requests')].body = [none |-> TRUE]
       /\ \A i \in 1..Len(requests), answer \in Answers, orderId \in OrderIds :
             (requests[i].op = "getPositions" /\ Respond(i, answer, orderId))
                => /\ UNCHANGED <<ledger, connections, sessions>>
                   /\ calls'[requests[i].call].state \in {"resolved", "rejected"}
                   /\ calls'[requests[i].call].state = "resolved"
                         => /\ answer.status \in {200, 201}
                            /\ answer.body # "none"]_vars

\* C24 witness: a session holding positions and orders has had one getPositions
\* answered and another fail
C24_Witness ==
    /\ ledger = HeldLedger
    /\ Len(calls) = 2
    /\ calls[1].op = "getPositions" /\ calls[1].state = "resolved"
    /\ calls[2].op = "getPositions" /\ calls[2].state = "rejected"

\* C25: every timeframe token validateMarketDataRequest accepts is translated
\* by convertTimeframe into a venue granularity code, so no accepted token
\* reaches the venue unconverted, and every other token is rejected at the
\* boundary.
C25_AcceptedTimeframesConverted ==
    /\ \A i \in 1..Len(fetches) :
          fetches[i].timeframe \in validTimeframes
             => fetches[i].granularity # fetches[i].timeframe
    /\ (last.op = "validateMarketDataRequest"
           /\ last.key \notin validTimeframes /\ last.key # "")
          => ~last.ok

\* C27: cancel handling is idempotent: an ORDER_CANCEL removes exactly the
\* order it names, applying the same event again changes nothing, a cancel for
\* an absent order id is a no-op, and a cancel never changes the positions map
\* or any other order.
C27_CancelIdempotent ==
    [][\A data \in LedgerTransactions :
          (data.type = "ORDER_CANCEL" /\ TransactionUpdate(data))
             => /\ DOMAIN ledger'.orders = DOMAIN ledger.orders \ {data.orderId}
                /\ \A o \in DOMAIN ledger'.orders : ledger'.orders[o] = ledger.orders[o]
                /\ ledger'.positions = ledger.positions
                /\ handleTransactionUpdate(ledger', data) = ledger'
                /\ data.orderId \notin DOMAIN ledger.orders => ledger' = ledger]_vars

\* C27 witness: a cancel has been handled, the order it names is gone and the
\* other order is still working
C27_Witness ==
    /\ last = [op |-> "ORDER_CANCEL", key |-> "o1", ok |-> TRUE]
    /\ DOMAIN ledger.orders = {"o2"}
    /\ DOMAIN ledger.positions # {}

\* C29: getCachedData never modifies the cache: a read that hits, misses or
\* finds a stale entry leaves every entry, the stale one included, as it was;
\* no entry is ever removed, and an entry changes only when updateCache writes
\* the same key.
C29_ReadsLeaveCache ==
    [][/\ \A symbol \in CacheSymbols, timeframe \in Timeframes :
             GetCachedData(symbol, timeframe) => cache' = cache
       /\ \A k \in DOMAIN cache :
             /\ k \in DOMAIN cache'
             /\ cache'[k] # cache[k]
                   => \E symbol \in CacheSymbols, data \in Snapshots :
                         /\ UpdateCache(symbol, data)
                         /\ k = CacheKey(symbol, OrElse(data.timeframe, "realtime"))]_vars

\* C29 witness: a read has just missed on an entry older than the window, and
\* the entry is still in the cache
C29_Witness ==
    /\ last.op = "getCachedData"
    /\ ~got.hit
    /\ got.key \in DOMAIN cache
    /\ now - cache[got.key].timestamp > CacheTtlMs

\* the sockets opened and not closed for a brokerId / for a symbol
OpenOfBroker(b) ==
    {k \in DOMAIN sockets :
        /\ sockets[k].owner > 0
        /\ sessions[sockets[k].owner].brokerId = b
        /\ sockets[k].state # "closed"}
OpenOfSymbol(symbol) ==
    {k \in DOMAIN sockets :
        /\ sockets[k].owner = 0
        /\ sockets[k].symbol = symbol
        /\ sockets[k].state # "closed"}

\* C30: no stream is orphaned: every socket opened and not closed is the one
\* the registry holds under its logical id, so at most one open stream exists
\* per brokerId and per symbol.
C30_NoOrphanStream ==
    /\ \A b \in BrokerIds :
          /\ \A k \in OpenOfBroker(b) :
                /\ b \in DOMAIN connections
                /\ sessions[connections[b]].stream = k
          /\ Cardinality(OpenOfBroker(b)) <= 1
    /\ \A symbol \in Symbols :
          /\ \A k \in OpenOfSymbol(symbol) :
                /\ symbol \in MdKeys(mdConnections)
                /\ MdGet(mdConnections, symbol) = k
          /\ Cardinality(OpenOfSymbol(symbol)) <= 1

\* C31: a transaction event that is neither a fill nor a cancel leaves the
\* positions map and the orders map as they were; a pricing event adds and
\* removes no position and no order and leaves every position of another
\* symbol than the event's instrument as it was.
C31_OtherEventsLeaveLedger ==
    [][/\ \A data \in LedgerTransactions :
             (data.type \notin {"ORDER_FILL", "ORDER_CANCEL"} /\ TransactionUpdate(data))
                => ledger' = ledger
       /\ \A data \in LedgerPrices :
             PriceUpdate(data)
                => /\ DOMAIN ledger'.positions = DOMAIN ledger.positions
                   /\ ledger'.orders = ledger.orders
                   /\ \A p \in DOMAIN ledger.positions :
                         ledger.positions[p].symbol # OrElse(data.instrument, data.symbol)
                            => ledger'.positions[p] = ledger.positions[p]]_vars

\* C31 witness: a price for another instrument has been handled by a session
\* that holds orders and a position already priced by an earlier event
C31_Witness ==
    /\ last = [op |-> "pricing", key |-> "GBP_USD", ok |-> TRUE]
    /\ DOMAIN ledger.orders = OrderIds
    /\ \E p \in DOMAIN ledger.positions :
          /\ ledger.positions[p].symbol = "EUR_USD"
          /\ "currentPrice" \in DOMAIN ledger.positions[p]

\* C32: registration is all-or-nothing for the users table: when a
\* registration has been answered with a failure, no users row that this
\* request inserted exists.
C32_FailedRegistrationLeavesNoRow ==
    \A i \in 1..Len(posts) :
        (posts[i].route = "register" /\ posts[i].pc = "done" /\ posts[i].status # 201)
            => ~\E row \in users : row.id = <<"users", i>>

\* the logins of the row with this id that were answered 200
SuccessfulLogins(id) ==
    {i \in 1..Len(posts) :
        /\ posts[i].route = "login" /\ posts[i].status = 200
        /\ posts[i].user # <<>> /\ posts[i].user[1].id = id}

\* C33: the login counter counts every successful login: once all requests
\* have been answered, every login that passed the checks was answered 200
\* and no update reported an error, the stored login_count of a user has
\* grown by the number of that user's successful logins, however the
\* requests interleaved.
C33_LoginCountCountsLogins ==
    (\A i \in 1..Len(posts) :
        /\ posts[i].pc = "done"
        /\ posts[i].status \in {200, 400, 401}
        /\ ~posts[i].updateError)
      => \A row \in users :
            row.login_count = Cardinality(SuccessfulLogins(row.id))

====
